---- MODULE Spec2Model ----
(***************************************************************************)
(* Orchestration core of the Veo3 / Flow automation server and clients:    *)
(* token pool (src/server.js), request deduplicator (src/server.js),       *)
(* 429 retry executor (src/server.js axiosWithRetry, client postJson),     *)
(* single-operation poller (client pollOperation) and the chained batch    *)
(* runner (src/mẫu/index.js runAutoLogger).                                *)
(***************************************************************************)
EXTENDS Integers, Sequences, FiniteSets, TLC

(***************************************************************************)
(* Bounds of the model                                                     *)
(***************************************************************************)
MaxNames == 3          \* longest tokenNames array sent to load-token-pool
MaxServed == 7         \* getNextToken results remembered since the last load
MaxTicks == 4          \* clock advances explored by the deduplicator
MaxRetriesBound == 7   \* largest maxRetries argument given to axiosWithRetry
MaxTriesBound == 4     \* largest non-default maxTries option given to pollOperation
AnswerHistory == 3     \* status answers remembered by the history of pollOperation
MaxPrompts == 2        \* longest prompt file given to runAutoLogger
MaxProxyLen == 7       \* longest proxy string given to axiosWithRetry, in characters
MaxArrivals == 3       \* requests received by the server's endpoints

(***************************************************************************)
(* Program constants                                                       *)
(***************************************************************************)
REQUEST_DEDUP_WINDOW_MS == 3000
BackoffBaseMs == 1000
BackoffCapMs == 32000
PostJsonMaxRetries == 5
DefaultMaxTries == 120
DefaultIntervalMs == 2500
maxPoll == 120
ExtendStartFrame == 168
ExtendEndFrame == 191

VARIABLES
    tokenPool,          \* server.js: let tokenPool = []
    currentTokenIndex,  \* server.js: let currentTokenIndex = 0
    lastToken,          \* record returned by the latest pool call
    served,             \* history: results of getNextToken() since the last load
    loadCall,           \* history: the latest load-token-pool request and its answer
    recentRequests,     \* server.js: const recentRequests = new Map()
    now,                \* Date.now() in ms
    ticks,              \* number of clock advances so far
    dedupCall,          \* history: the latest isDuplicateRequest call
    rateLimitStats,     \* server.js: let rateLimitStats = {...}
    rq,                 \* the axiosWithRetry calls (one record per top-level call)
    pj,                 \* the client's postJson call
    poll,               \* the client's pollOperation call
    chain,              \* runAutoLogger: its closure variables and position
    srv,                \* server.js: the endpoint handlers in progress and what they sent
    gv,                 \* veo3FlowApi.js: the generateVideo call
    bearer,             \* server.js: `session` and the getAccessToken calls in
                        \* progress
    job                 \* video.js: the startJob call

poolVars == <<tokenPool, currentTokenIndex, lastToken, served, loadCall>>
dedupVars == <<recentRequests, now, ticks, dedupCall>>
retryVars == <<rateLimitStats, rq>>
apiVars == <<gv, bearer>>
clientVars == <<pj, poll, job, apiVars>>
vars == <<poolVars, dedupVars, retryVars, clientVars, chain, srv>>

exceptPool == <<dedupVars, retryVars, clientVars, chain, srv>>
exceptLoad == <<dedupVars, retryVars, pj, poll, job, gv, chain, srv>>
exceptDedup == <<poolVars, retryVars, clientVars, chain, srv>>
exceptRetry == <<poolVars, dedupVars, clientVars, chain, srv>>
exceptClient == <<poolVars, dedupVars, retryVars, chain, srv, job, apiVars>>
exceptApi == <<poolVars, dedupVars, retryVars, pj, poll, job, chain, srv, bearer>>
\* what a step of getAccessToken and of the handler that awaits it leaves alone
exceptCredentials == <<currentTokenIndex, lastToken, served, loadCall, dedupVars, rq,
                       pj, poll, job, chain, gv>>
exceptChain == <<poolVars, dedupVars, retryVars, clientVars, srv>>

Min(a, b) == IF a < b THEN a ELSE b
Max(a, b) == IF a > b THEN a ELSE b

Least(S) == CHOOSE x \in S : \A y \in S : x <= y
Greatest(S) == CHOOSE x \in S : \A y \in S : x >= y

\* null and undefined; a missing timestamp
Null == "null"
Undefined == "undefined"
Absent == -1

\* !x for a string-valued property
Falsy(x) == x \in {Null, Undefined, ""}

(***************************************************************************)
(* Credential records: `session` and the token objects (src/server.js      *)
(* 39-52, 70-79, 131-162, 1585-1593)                                       *)
(***************************************************************************)
\* the slots of the endpoint handlers in progress
Reqs == {1, 2}

NoProxy == "none"
NoAuthorization == <<>>
NoAccess == <<"null">>
\* the access_token of the n-th getAccessToken call's session request
AccessToken(n) == <<"access", n>>

\* Times are ms since the server started, so every stored Date.now() is truthy.
NoToken ==
    [name |-> "", proxy |-> NoProxy, cookies |-> Null, sessionToken |-> Null,
     authorization |-> NoAuthorization, accessToken |-> NoAccess, lastUpdate |-> Absent]

\* Credential store as readTokensFromFile() returns it: unique names, missing
\* cookies and session token as '', missing authorization and proxy as null.
\* "B" is a lane without cookies, "C" a lane with a saved authorization.
Store ==
    << [name |-> "A", proxy |-> "10.0.0.1:8080:u:p", cookies |-> "c=A",
        sessionToken |-> "st-A", authorization |-> NoAuthorization],
       [name |-> "B", proxy |-> NoProxy, cookies |-> "",
        sessionToken |-> "", authorization |-> NoAuthorization],
       [name |-> "C", proxy |-> "10.0.0.3:3128", cookies |-> "c=C",
        sessionToken |-> "st-C",
        authorization |-> <<"B", "e", "a", "r", "e", "r", " ", "s", "v", "d">>] >>

\* Names a caller may send in the pool specifications; "X" is not in the store.
Names == {"A", "C", "X"}

NameSeqs == UNION {[1..n -> Names] : n \in 0..MaxNames}

\* a record of the store as a token object: it has no bearer token yet
\* (poolToken: accessToken: null, lastUpdate: null)
Token(t) ==
    [name |-> t.name, proxy |-> t.proxy, cookies |-> t.cookies,
     sessionToken |-> t.sessionToken, authorization |-> t.authorization,
     accessToken |-> NoAccess, lastUpdate |-> Absent]

\* let session = { accessToken: null, cookies: null, sessionToken: null, ...,
\* lastUpdate: null, page: null }
NoSession ==
    [cookies |-> Null, sessionToken |-> Null, accessToken |-> NoAccess,
     lastUpdate |-> Absent, page |-> FALSE]

\* the four properties getAccessToken reads and writes
Credential(t) ==
    [cookies |-> t.cookies, sessionToken |-> t.sessionToken,
     accessToken |-> t.accessToken, lastUpdate |-> t.lastUpdate]

NoCredential == Credential(NoSession)

\* the getAccessToken calls: one per handler slot, and call 0 made by the
\* routes that are not modelled as handlers
Frames == {0} \cup Reqs

\* A call holds its targetToken: the copy of `session` it made (kind
\* "session"), the record `at` of the pool ("pool"), an object nothing else
\* refers to ("own": the default token, a record read from the store, a record
\* of a pool that was replaced meanwhile) or the object call `at` owns
\* ("shared").  The other fields are the history of the call.
IdleFrame ==
    [pc |-> "idle", kind |-> "none", at |-> 0, own |-> NoCredential,
     record |-> "", forceRefresh |-> FALSE, n |-> 0,
     before |-> NoCredential,   \* the target when the call was made
     age |-> 0,                 \* tokenAge when the call was made
     validations |-> <<>>,      \* the answers of validateToken
     extracts |-> <<>>,         \* the outcomes of extractCredentials
     fetches |-> <<>>,          \* the answers of the session endpoint
     fetchedAt |-> Absent,
     after |-> NoCredential,    \* the target when the call ended
     returned |-> NoAccess, thrown |-> FALSE,
     status |-> 0]              \* error.response.status of what was thrown

IdleBearer ==
    [session |-> NoSession,
     frames |-> [f \in Frames |-> IdleFrame],
     calls |-> 0]               \* getAccessToken calls so far

(***************************************************************************)
(* Token pool / selector (src/server.js 66-99, 1570-1647)                  *)
(***************************************************************************)
DefaultTokenSwapped ==
    [NoToken EXCEPT !.name = "default",
                    !.cookies = bearer.session.sessionToken,
                    !.sessionToken = bearer.session.cookies,
                    !.accessToken = bearer.session.accessToken]

\* getNextToken(), empty pool: record built from the ambient session (it has
\* no lastUpdate, authorization or proxy)
DefaultToken ==
    [NoToken EXCEPT !.name = "default",
                    !.cookies = bearer.session.cookies,
                    !.sessionToken = bearer.session.sessionToken,
                    !.accessToken = bearer.session.accessToken]

\* allTokens.find(t => t.name === tokenName): first index or 0
RECURSIVE FindIndex(_, _, _)
FindIndex(seq, name, i) ==
    IF i > Len(seq) THEN 0
    ELSE IF seq[i].name = name THEN i
    ELSE FindIndex(seq, name, i + 1)

BuildPoolKeepsUnknown(names, acc) ==
    [k \in 1..Len(names) |->
        IF FindIndex(Store, names[k], 1) = 0 THEN NoToken
        ELSE Token(Store[FindIndex(Store, names[k], 1)])]

\* for (const tokenName of tokenNames) { find; if (token) tokenPool.push(poolToken) }
RECURSIVE BuildPool(_, _)
BuildPool(names, acc) ==
    IF names = <<>> THEN acc
    ELSE LET i == FindIndex(Store, Head(names), 1)
         IN BuildPool(Tail(names), IF i = 0 THEN acc ELSE Append(acc, Token(Store[i])))

\* getNextToken(): the record returned
NextTokenResult(pool, cursor) ==
    IF Len(pool) = 0 THEN DefaultToken ELSE pool[cursor + 1]

NextCursorStuck(pool, cursor) == cursor

NextCursorNoWrap(pool, cursor) ==
    IF Len(pool) = 0 THEN cursor ELSE cursor + 1

\* getNextToken(): the cursor afterwards
NextCursor(pool, cursor) ==
    IF Len(pool) = 0 THEN cursor ELSE (cursor + 1) % Len(pool)

\* no load-token-pool request answered with success yet
NoLoad == [names |-> <<>>, success |-> FALSE]

\* the getAccessToken calls whose targetToken is record i of the pool
Holders(b, i) == {f \in Frames : b.frames[f].kind = "pool" /\ b.frames[f].at = i}

\* tokenPool = []: the calls in progress keep the objects they were given
Detach(b, pool) ==
    IF \A f \in Frames : b.frames[f].kind # "pool" THEN b
    ELSE [b EXCEPT !.frames = [f \in Frames |->
        LET fr == b.frames[f] IN
        IF fr.kind # "pool" THEN fr
        ELSE IF f = Least(Holders(b, fr.at))
        THEN [fr EXCEPT !.kind = "own", !.at = 0, !.own = Credential(pool[fr.at])]
        ELSE [fr EXCEPT !.kind = "shared", !.at = Least(Holders(b, fr.at))]]]

\* POST /api/load-token-pool with a tokenNames array of `nameSeqs`, the store
\* being readable or not as `reads` tells
LoadTokenPoolFrom(nameSeqs, reads) ==
    \E names \in nameSeqs, readOk \in reads :
        IF names = <<>>
        THEN \* { success: false, error: 'Token names array is required' }
             /\ loadCall' = NoLoad
             /\ UNCHANGED <<tokenPool, currentTokenIndex, lastToken, served, exceptPool>>
        ELSE IF ~readOk
        THEN \* readTokensFromFile() throws: { success: false, error: error.message }
             /\ loadCall' = NoLoad
             /\ UNCHANGED <<tokenPool, currentTokenIndex, lastToken, served, exceptPool>>
        ELSE /\ tokenPool' = BuildPool(names, <<>>)
             /\ currentTokenIndex' = 0
             /\ served' = <<>>
             /\ lastToken' = NoToken
             /\ loadCall' = [names |-> names, success |-> TRUE]
             /\ bearer' = Detach(bearer, tokenPool)
             /\ UNCHANGED exceptLoad

LoadTokenPool == LoadTokenPoolFrom(NameSeqs, BOOLEAN)

\* getNextToken(): its effect on the pool variables
TakeNextToken ==
    /\ Len(served) < MaxServed
    /\ lastToken' = NextTokenResult(tokenPool, currentTokenIndex)
    /\ currentTokenIndex' = NextCursor(tokenPool, currentTokenIndex)
    /\ served' = Append(served, NextTokenResult(tokenPool, currentTokenIndex))
    /\ UNCHANGED <<tokenPool, loadCall>>

\* getNextToken() called by a handler
GetNextToken == TakeNextToken /\ UNCHANGED exceptPool

LookupByNameAlwaysNext(name) == TakeNextToken

\* getTokenByName(tokenName): its effect on the pool variables; "" is the
\* missing name
LookupByName(name) ==
    LET i == FindIndex(tokenPool, name, 1) IN
    IF name # "" /\ i # 0
    THEN /\ lastToken' = tokenPool[i]
         /\ UNCHANGED <<tokenPool, currentTokenIndex, served, loadCall>>
    ELSE TakeNextToken

GetTokenByName ==
    \E name \in Names \cup {""} : LookupByName(name) /\ UNCHANGED exceptPool

(***************************************************************************)
(* Request deduplicator (src/server.js 101-128)                            *)
(***************************************************************************)
Hashes == {"h1", "h2"}
TickSteps == {1, 2000, 2999, 3000}

PurgeInclusive(map, t) ==
    [h \in Hashes |->
        IF map[h] # Absent /\ t - map[h] >= REQUEST_DEDUP_WINDOW_MS
        THEN Absent ELSE map[h]]

\* for (const [hash, timestamp] of recentRequests.entries()) if (now - timestamp > WINDOW) delete
Purge(map, t) ==
    [h \in Hashes |->
        IF map[h] # Absent /\ t - map[h] > REQUEST_DEDUP_WINDOW_MS
        THEN Absent ELSE map[h]]

IsDuplicateNever(map, h, t) == FALSE

\* return value of isDuplicateRequest(h) at time t
IsDuplicate(map, h, t) == Purge(map, t)[h] # Absent

RecordRequestForgets(map, h, t) == Purge(map, t)

RecordRequestRefreshes(map, h, t) == [Purge(map, t) EXCEPT ![h] = t]

\* recentRequests after isDuplicateRequest(h) at time t
RecordRequest(map, h, t) ==
    IF IsDuplicate(map, h, t) THEN Purge(map, t)
    ELSE [Purge(map, t) EXCEPT ![h] = t]

\* time passes between calls, by one of `steps` ms
TickBy(steps) ==
    /\ ticks < MaxTicks
    /\ \E d \in steps : now' = now + d
    /\ ticks' = ticks + 1
    /\ UNCHANGED <<recentRequests, dedupCall, exceptDedup>>

Tick == TickBy(TickSteps)

\* isDuplicateRequest(requestHash)
\* isDuplicateRequest(h): its effect on the deduplicator's variables
CheckDuplicate(h) ==
    /\ recentRequests' = RecordRequest(recentRequests, h, now)
    /\ dedupCall' = [hash |-> h, at |-> now,
                     dup |-> IsDuplicate(recentRequests, h, now),
                     accepted |-> [dedupCall.accepted EXCEPT ![h] =
                         IF IsDuplicate(recentRequests, h, now) THEN @ ELSE now],
                     refused |-> [dedupCall.refused EXCEPT ![h] =
                         IF IsDuplicate(recentRequests, h, now) THEN now ELSE @],
                     prev |-> dedupCall.accepted[h]]
    /\ UNCHANGED <<now, ticks>>

IsDuplicateRequest ==
    \E h \in Hashes : CheckDuplicate(h) /\ UNCHANGED exceptDedup

(***************************************************************************)
(* parseInt, parseFloat and Number.prototype.toFixed over strings given as *)
(* sequences of characters                                                 *)
(***************************************************************************)
Digits == <<"0", "1", "2", "3", "4", "5", "6", "7", "8", "9">>
IsDigit(ch) == \E d \in 1..10 : Digits[d] = ch
DigitVal(ch) == (CHOOSE d \in 1..10 : Digits[d] = ch) - 1

RECURSIVE Pow2(_)
Pow2(k) == IF k = 0 THEN 1 ELSE 2 * Pow2(k - 1)

(***************************************************************************)
(* Natural numbers of any size, as little-endian sequences of 15-bit limbs *)
(* without leading zero limbs (<<>> is 0): the arithmetic behind the       *)
(* IEEE-754 doubles of Number. Carries run through a range of limbs by     *)
(* halving it, so the depth of evaluation grows with the logarithm of the  *)
(* size.                                                                   *)
(***************************************************************************)
LimbBase == 2^15


BNorm(a) ==
    LET used == {i \in 1..Len(a) : a[i] # 0}
    IN IF used = {} THEN <<>> ELSE SubSeq(a, 1, Greatest(used))

RECURSIVE BFromInt(_)
BFromInt(n) == IF n = 0 THEN <<>> ELSE <<n % LimbBase>> \o BFromInt(n \div LimbBase)

Limb(a, i) == IF i <= Len(a) THEN a[i] ELSE 0

\* limbs lo..hi of a + b + carry, and the carry out of them
RECURSIVE BAddSeg(_, _, _, _, _)
BAddSeg(a, b, lo, hi, carry) ==
    IF lo = hi
    THEN LET s == Limb(a, lo) + Limb(b, lo) + carry
         IN [limbs |-> <<s % LimbBase>>, carry |-> s \div LimbBase]
    ELSE LET mid == (lo + hi) \div 2
             low == BAddSeg(a, b, lo, mid, carry)
             high == BAddSeg(a, b, mid + 1, hi, low.carry)
         IN [limbs |-> low.limbs \o high.limbs, carry |-> high.carry]

BAdd(a, b) ==
    IF a = <<>> THEN b
    ELSE IF b = <<>> THEN a
    ELSE LET r == BAddSeg(a, b, 1, Max(Len(a), Len(b)), 0)
         IN IF r.carry = 0 THEN r.limbs ELSE Append(r.limbs, r.carry)

\* limbs lo..hi of a - b - borrow, and the borrow out of them
RECURSIVE BSubSeg(_, _, _, _, _)
BSubSeg(a, b, lo, hi, borrow) ==
    IF lo = hi
    THEN LET d == Limb(a, lo) - Limb(b, lo) - borrow
         IN [limbs |-> <<IF d < 0 THEN d + LimbBase ELSE d>>,
             borrow |-> IF d < 0 THEN 1 ELSE 0]
    ELSE LET mid == (lo + hi) \div 2
             low == BSubSeg(a, b, lo, mid, borrow)
             high == BSubSeg(a, b, mid + 1, hi, low.borrow)
         IN [limbs |-> low.limbs \o high.limbs, borrow |-> high.borrow]

\* a - b for a >= b
BSub(a, b) == IF a = <<>> THEN <<>> ELSE BNorm(BSubSeg(a, b, 1, Len(a), 0).limbs)

\* -1, 0, 1 as a < b, a = b, a > b
BCmp(a, b) ==
    IF Len(a) < Len(b) THEN -1
    ELSE IF Len(a) > Len(b) THEN 1
    ELSE IF a = b THEN 0
    ELSE LET top == Greatest({i \in 1..Len(a) : a[i] # b[i]})
         IN IF a[top] < b[top] THEN -1 ELSE 1

\* limbs lo..hi of a * s + carry, and the carry out of them
RECURSIVE BMulSeg(_, _, _, _, _)
BMulSeg(a, s, lo, hi, carry) ==
    IF lo = hi
    THEN LET p == a[lo] * s + carry
         IN [limbs |-> <<p % LimbBase>>, carry |-> p \div LimbBase]
    ELSE LET mid == (lo + hi) \div 2
             low == BMulSeg(a, s, lo, mid, carry)
             high == BMulSeg(a, s, mid + 1, hi, low.carry)
         IN [limbs |-> low.limbs \o high.limbs, carry |-> high.carry]

\* a * s for 0 <= s < LimbBase
BMulSmall(a, s) ==
    IF s = 0 \/ a = <<>> THEN <<>>
    ELSE LET r == BMulSeg(a, s, 1, Len(a), 0)
         IN IF r.carry = 0 THEN r.limbs ELSE Append(r.limbs, r.carry)

Reverse(s) == [i \in 1..Len(s) |-> s[Len(s) + 1 - i]]

\* limbs hi..lo of the quotient of a by s, the top limb first, rem being the
\* remainder that comes down from the limbs above hi, and the remainder
\* going down
RECURSIVE BDivSeg(_, _, _, _, _)
BDivSeg(a, s, lo, hi, rem) ==
    IF lo = hi
    THEN LET cur == rem * LimbBase + a[lo]
         IN [limbs |-> <<cur \div s>>, rem |-> cur % s]
    ELSE LET mid == (lo + hi) \div 2
             high == BDivSeg(a, s, mid + 1, hi, rem)
             low == BDivSeg(a, s, lo, mid, high.rem)
         IN [limbs |-> high.limbs \o low.limbs, rem |-> low.rem]

\* quotient and remainder of a by s, 0 < s < LimbBase
BDivSmall(a, s) ==
    IF a = <<>> THEN [q |-> <<>>, r |-> 0]
    ELSE LET d == BDivSeg(a, s, 1, Len(a), 0)
         IN [q |-> BNorm(Reverse(d.limbs)), r |-> d.rem]

RECURSIVE BitLen(_)
BitLen(n) == IF n = 0 THEN 0 ELSE 1 + BitLen(n \div 2)

LimbBits == BitLen(LimbBase - 1)

BBitLen(a) == IF a = <<>> THEN 0 ELSE LimbBits * (Len(a) - 1) + BitLen(a[Len(a)])

\* a * 2^k and floor(a / 2^k)
BShl(a, k) ==
    IF a = <<>> THEN <<>>
    ELSE [i \in 1..(k \div LimbBits) |-> 0] \o BMulSmall(a, Pow2(k % LimbBits))

BShr(a, k) ==
    IF k \div LimbBits >= Len(a) THEN <<>>
    ELSE BDivSmall(SubSeq(a, (k \div LimbBits) + 1, Len(a)), Pow2(k % LimbBits)).q

\* bit i of a (bit 0 is the lowest); whether the bits below bit k are all 0
BBit(a, i) == (Limb(a, (i \div LimbBits) + 1) \div Pow2(i % LimbBits)) % 2

BLowZero(a, k) ==
    /\ \A j \in 1..Min(k \div LimbBits, Len(a)) : a[j] = 0
    /\ Limb(a, (k \div LimbBits) + 1) % Pow2(k % LimbBits) = 0

\* a * 10^k
RECURSIVE BTimesPow10(_, _)
BTimesPow10(a, k) ==
    IF a = <<>> \/ k = 0 THEN a
    ELSE IF k = 1 THEN BMulSmall(a, 10)
    ELSE BTimesPow10(BTimesPow10(a, k \div 2), k - (k \div 2))

\* floor(a / 10^k), and whether anything was cut off
RECURSIVE BOverPow10(_, _)
BOverPow10(a, k) ==
    IF a = <<>> \/ k = 0 THEN [q |-> a, cut |-> FALSE]
    ELSE IF k = 1 THEN LET d == BDivSmall(a, 10) IN [q |-> d.q, cut |-> d.r # 0]
    ELSE LET first == BOverPow10(a, k \div 2)
             second == BOverPow10(first.q, k - (k \div 2))
         IN [q |-> second.q, cut |-> first.cut \/ second.cut]

\* the value of the decimal digits chars[i..j]
RECURSIVE BFromDigits(_, _, _)
BFromDigits(chars, i, j) ==
    IF i > j THEN <<>>
    ELSE IF i = j THEN BFromInt(DigitVal(chars[i]))
    ELSE LET mid == (i + j) \div 2
         IN BAdd(BTimesPow10(BFromDigits(chars, i, mid), j - mid),
                 BFromDigits(chars, mid + 1, j))

\* the last k decimal digits of a, and the rest of a
RECURSIVE BLastDigits(_, _)
BLastDigits(a, k) ==
    IF a = <<>> THEN [q |-> a, ds |-> [i \in 1..k |-> "0"]]
    ELSE IF k = 1 THEN LET d == BDivSmall(a, 10) IN [q |-> d.q, ds |-> <<Digits[d.r + 1]>>]
    ELSE LET last == BLastDigits(a, k \div 2)
             before == BLastDigits(last.q, k - (k \div 2))
         IN [q |-> before.q, ds |-> before.ds \o last.ds]

\* the decimal digits of a ("0" for 0)
BToDecimal(a) ==
    IF a = <<>> THEN <<"0">>
    ELSE LET ds == BLastDigits(a, (BBitLen(a) \div 3) + 1).ds
             first == Least({i \in 1..Len(ds) : ds[i] # "0"})
         IN SubSeq(ds, first, Len(ds))

(***************************************************************************)
(* Number: IEEE-754 doubles. A finite double is (-1)^neg * m * 2^e with    *)
(* 2^52 <= m < 2^53 and -1074 <= e <= 971, or m < 2^52 and e = -1074       *)
(* (subnormal), or m = 0 and e = 0 (zero).                                 *)
(***************************************************************************)
Finite(neg, m, e) == [kind |-> "finite", neg |-> neg, m |-> m, e |-> e]
Zero(neg) == Finite(neg, <<>>, 0)
Infinity(neg) == [kind |-> "infinite", neg |-> neg, m |-> <<>>, e |-> 0]
NaN == [kind |-> "nan", neg |-> FALSE, m |-> <<>>, e |-> 0]

IsZero(x) == x.kind = "finite" /\ x.m = <<>>

\* the double for the significand m (up to 54 bits after rounding) at exponent lsb
Pack(neg, m, lsb) ==
    IF m = <<>> THEN Zero(neg)
    ELSE LET carried == BBitLen(m) > 53
             mm == IF carried THEN BShr(m, 1) ELSE m
             ee == IF carried THEN lsb + 1 ELSE lsb
         IN IF ee > 971 THEN Infinity(neg) ELSE Finite(neg, mm, ee)

\* the double nearest to (-1)^neg * (n + f) * 2^e, ties to even, where
\* 0 <= f < 1 and `sticky` tells whether f > 0
RoundToDouble(neg, n, sticky, e) ==
    IF n = <<>> THEN Zero(neg)
    ELSE LET top == BBitLen(n) - 1 + e
             lsb == Max(top - 52, -1074)
             shift == lsb - e
         IN IF shift <= 0 THEN Pack(neg, BShl(n, -shift), lsb)
            ELSE LET q == BShr(n, shift)
                     half == BBit(n, shift - 1) = 1
                     rest == sticky \/ ~BLowZero(n, shift - 1)
                     up == half /\ (rest \/ BBit(q, 0) = 1)
                 IN Pack(neg, IF up THEN BAdd(q, <<1>>) ELSE q, lsb)

\* the double of an integer of the model
Number(n) == RoundToDouble(n < 0, BFromInt(IF n < 0 THEN -n ELSE n), FALSE, 0)

\* the double nearest to (-1)^neg * (q.q + f) * 2^e, where q.cut tells whether
\* f > 0
RoundQuotient(neg, q, e) == RoundToDouble(neg, q.q, q.cut, e)

\* the double nearest to (-1)^neg * d * 10^p, d a natural number of at most
\* BBitLen(d) / 3 + 1 decimal digits
DecimalToDouble(neg, d, p) ==
    IF d = <<>> THEN Zero(neg)
    ELSE IF p > 310 THEN Infinity(neg)
    ELSE IF (BBitLen(d) \div 3) + 1 + p < -330 THEN Zero(neg)
    ELSE RoundQuotient(neg,
            IF p >= 0 THEN [q |-> BTimesPow10(d, p), cut |-> FALSE]
            ELSE BOverPow10(BShl(d, 64 + 4 * (-p)), -p),
            IF p >= 0 THEN 0 ELSE -(64 + 4 * (-p)))

\* |a - b|
BDist(a, b) == IF BCmp(a, b) >= 0 THEN BSub(a, b) ELSE BSub(b, a)

\* the double nearest to ((-1)^xneg * a + (-1)^yneg * b) * 2^e, a and b not 0
SumAt(xneg, a, yneg, b, e) ==
    IF xneg # yneg /\ BCmp(a, b) = 0 THEN Zero(FALSE)
    ELSE RoundToDouble(IF xneg = yneg \/ BCmp(a, b) > 0 THEN xneg ELSE yneg,
                       IF xneg = yneg THEN BAdd(a, b) ELSE BDist(a, b), FALSE, e)

\* x + y
Plus(x, y) ==
    IF x.kind = "nan" \/ y.kind = "nan" THEN NaN
    ELSE IF x.kind = "infinite"
    THEN (IF y.kind = "infinite" /\ y.neg # x.neg THEN NaN ELSE x)
    ELSE IF y.kind = "infinite" THEN y
    ELSE IF IsZero(x) /\ IsZero(y) THEN Zero(x.neg /\ y.neg)
    ELSE IF IsZero(x) THEN y
    ELSE IF IsZero(y) THEN x
    ELSE SumAt(x.neg, BShl(x.m, x.e - Min(x.e, y.e)),
               y.neg, BShl(y.m, y.e - Min(x.e, y.e)), Min(x.e, y.e))

\* x * k for an integer 0 < k < LimbBase
Times(x, k) ==
    IF x.kind # "finite" THEN x
    ELSE RoundToDouble(x.neg, BMulSmall(x.m, k), FALSE, x.e)

\* |x| < |y| for x and y that are not NaN
MagnitudeLess(x, y) ==
    IF x.kind = "infinite" THEN FALSE
    ELSE IF y.kind = "infinite" THEN TRUE
    ELSE IF BBitLen(x.m) + x.e # BBitLen(y.m) + y.e
    THEN BBitLen(x.m) + x.e < BBitLen(y.m) + y.e
    ELSE BCmp(BShl(x.m, x.e - Min(x.e, y.e)), BShl(y.m, y.e - Min(x.e, y.e))) < 0

\* -1, 0, 1 as x is negative, a zero, positive
Signum(x) == IF IsZero(x) THEN 0 ELSE IF x.neg THEN -1 ELSE 1

\* x < y and x <= y
Less(x, y) ==
    /\ x.kind # "nan" /\ y.kind # "nan"
    /\ IF Signum(x) # Signum(y) THEN Signum(x) < Signum(y)
       ELSE IF Signum(x) = 1 THEN MagnitudeLess(x, y)
       ELSE IF Signum(x) = -1 THEN MagnitudeLess(y, x)
       ELSE FALSE

AtMost(x, y) == x.kind # "nan" /\ y.kind # "nan" /\ ~Less(y, x)

\* floor(|x|) of a finite x
Floor(x) == IF x.e >= 0 THEN BShl(x.m, x.e) ELSE BShr(x.m, -x.e)

HexLower == <<"a", "b", "c", "d", "e", "f">>
HexUpper == <<"A", "B", "C", "D", "E", "F">>
IsHexDigit(ch) == IsDigit(ch) \/ \E d \in 1..6 : HexLower[d] = ch \/ HexUpper[d] = ch
HexVal(ch) ==
    IF IsDigit(ch) THEN DigitVal(ch)
    ELSE 9 + (CHOOSE d \in 1..6 : HexLower[d] = ch \/ HexUpper[d] = ch)

\* the WhiteSpace and LineTerminator code points that a string can hold
WhiteSpace == {" ", "\t", "\n", "\r", "\f", "", " ", "﻿", " "}

\* index of the first character of chars[i..] that is not white space
SkipWhiteSpace(chars, i) ==
    Least({k \in i..(Len(chars) + 1) : k > Len(chars) \/ chars[k] \notin WhiteSpace})

CharAt(chars, i) == IF 1 <= i /\ i <= Len(chars) THEN chars[i] ELSE ""

HasSign(chars, i) == CharAt(chars, i) \in {"+", "-"}

StartsWith(chars, i, word) ==
    /\ i + Len(word) - 1 <= Len(chars)
    /\ \A k \in 1..Len(word) : chars[i + k - 1] = word[k]

\* String.prototype.includes
Includes(chars, word) ==
    \E i \in 1..(Len(chars) - Len(word) + 1) : SubSeq(chars, i, i + Len(word) - 1) = word

\* number of leading digits of chars[i..], for i <= Len(chars) + 1
DigitRun(chars, i) ==
    Least({k \in i..(Len(chars) + 1) : k > Len(chars) \/ ~IsDigit(chars[k])}) - i

HexRun(chars, i) ==
    Least({k \in i..(Len(chars) + 1) : k > Len(chars) \/ ~IsHexDigit(chars[k])}) - i

\* the value of the hexadecimal digits chars[i..j]
RECURSIVE BFromHex(_, _, _)
BFromHex(chars, i, j) ==
    IF i > j THEN <<>>
    ELSE IF i = j THEN BFromInt(HexVal(chars[i]))
    ELSE LET mid == (i + j) \div 2
         IN BAdd(BShl(BFromHex(chars, i, mid), 4 * (j - mid)), BFromHex(chars, mid + 1, j))

RECURSIVE SmallInt(_, _, _, _)
SmallInt(chars, i, j, acc) ==
    IF i > j THEN acc ELSE SmallInt(chars, i + 1, j, acc * 10 + DigitVal(chars[i]))

\* the value of the digits chars[i..j] of an exponent, 10^9 when it has ten
\* digits or more after its leading zeros: a string holds fewer than 2^29
\* characters (String::kMaxLength), so the digits of the literal move the
\* decimal point by less than that, and with an exponent of 10^9 or beyond
\* the literal is infinite, or zero, whatever its digits are
CappedInt(chars, i, j) ==
    LET used == {k \in i..j : chars[k] # "0"}
    IN IF used = {} THEN 0
       ELSE IF j - Least(used) >= 9 THEN 1000000000
       ELSE SmallInt(chars, Least(used), j, 0)

\* parseInt(string) with no radix: white space skipped, an optional sign, an
\* optional 0x or 0X, then the digits of the radix; NaN when there are none
ParseInt(chars) ==
    LET s == SkipWhiteSpace(chars, 1)
        neg == CharAt(chars, s) = "-"
        i == IF HasSign(chars, s) THEN s + 1 ELSE s
        hex == CharAt(chars, i) = "0" /\ CharAt(chars, i + 1) \in {"x", "X"}
        j == IF hex THEN i + 2 ELSE i
        n == IF hex THEN HexRun(chars, j) ELSE DigitRun(chars, j)
    IN IF n = 0 THEN NaN
       ELSE RoundToDouble(neg, IF hex THEN BFromHex(chars, j, j + n - 1)
                                ELSE BFromDigits(chars, j, j + n - 1), FALSE, 0)

InfinityWord == <<"I", "n", "f", "i", "n", "i", "t", "y">>

\* the exponent part at chars[j], its digits starting at chars[k]: 0 when
\* chars[j] is not an exponent indicator
ExponentFrom(chars, j, k) ==
    IF CharAt(chars, j) \notin {"e", "E"} THEN 0
    ELSE (IF CharAt(chars, j + 1) = "-" THEN -1 ELSE 1)
            * CappedInt(chars, k, k + DigitRun(chars, k) - 1)

ExponentAt(chars, j) ==
    ExponentFrom(chars, j, IF HasSign(chars, j + 1) THEN j + 2 ELSE j + 1)

\* the double of the literal with the n1 digits chars[i..] before the dot, n2
\* digits after it and the exponent exp
DecimalLiteral(chars, neg, i, n1, n2, exp) ==
    IF n1 + n2 = 0 THEN NaN
    ELSE DecimalToDouble(neg,
            BAdd(BTimesPow10(BFromDigits(chars, i, i + n1 - 1), n2),
                 BFromDigits(chars, i + n1 + 1, i + n1 + n2)),
            exp - n2)

\* the literal at chars[i..] with n1 digits before a dot, if `dot`, and n2 after it
DecimalFrom(chars, neg, i, n1, dot, n2) ==
    DecimalLiteral(chars, neg, i, n1, n2,
                   ExponentAt(chars, IF dot THEN i + n1 + 1 + n2 ELSE i + n1))

DecimalAfter(chars, neg, i, n1, dot) ==
    DecimalFrom(chars, neg, i, n1, dot,
                IF dot THEN DigitRun(chars, i + n1 + 1) ELSE 0)

\* the literal at chars[i..], after the sign
UnsignedLiteral(chars, neg, i) ==
    IF StartsWith(chars, i, InfinityWord) THEN Infinity(neg)
    ELSE DecimalAfter(chars, neg, i, DigitRun(chars, i),
                      CharAt(chars, i + DigitRun(chars, i)) = ".")

SignedLiteral(chars, s) ==
    UnsignedLiteral(chars, CharAt(chars, s) = "-", IF HasSign(chars, s) THEN s + 1 ELSE s)

\* parseFloat(string): white space skipped, then the longest prefix that is
\* a StrDecimalLiteral; NaN when there is none
ParseFloat(chars) == SignedLiteral(chars, SkipWhiteSpace(chars, 1))

\* |x| >= 10^21 for a finite x
AtLeastTenTo21(x) == x.e >= 0 /\ BCmp(Floor(x), BTimesPow10(<<1>>, 21)) >= 0

Zeros(k) == [i \in 1..k |-> "0"]

\* ds without its trailing zeros, its first digit kept
StripZeros(ds) == SubSeq(ds, 1, Greatest({1} \cup {i \in 1..Len(ds) : ds[i] # "0"}))

\* the natural number n reads back as |x|
ReadsBack(x, n) == RoundToDouble(FALSE, n, FALSE, 0) = [x EXCEPT !.neg = FALSE]

\* lo or hi = lo + 1: the one that reads back (oklo, okhi), the nearer one
\* when both do (c compares their distances), the even one on a tie; <<>>
\* when neither does
NearerOf(lo, hi, oklo, okhi, c) ==
    IF oklo /\ okhi
    THEN (IF c < 0 THEN lo ELSE IF c > 0 THEN hi
          ELSE IF BBit(lo, 0) = 0 THEN lo ELSE hi)
    ELSE IF oklo THEN lo
    ELSE IF okhi THEN hi
    ELSE <<>>

ShortestOf(x, v, lo, hi, vlo, vhi) ==
    NearerOf(lo, hi, ReadsBack(x, vlo), ReadsBack(x, vhi),
             BCmp(BDist(v, vlo), BDist(vhi, v)))

ShortestAbove(x, v, p, lo) ==
    ShortestOf(x, v, lo, BAdd(lo, <<1>>),
               BTimesPow10(lo, p), BTimesPow10(BAdd(lo, <<1>>), p))

\* the k-digit n with n * 10^(len - k) nearest to v among those that read back
\* as x (even n on a tie), <<>> when no k-digit number reads back as x
ShortestAt(x, v, len, k) == ShortestAbove(x, v, len - k, BOverPow10(v, len - k).q)

\* the shortest digits that read back as x, v = floor(|x|) having len digits,
\* trying k, k + 1, ... digits; n is what k digits gave
RECURSIVE ShortestFrom(_, _, _, _)
ShortestOr(x, v, len, k, n) ==
    IF n # <<>> THEN [n |-> n, k |-> k] ELSE ShortestFrom(x, v, len, k + 1)

ShortestFrom(x, v, len, k) ==
    IF k >= len THEN [n |-> v, k |-> len]
    ELSE ShortestOr(x, v, len, k, ShortestAt(x, v, len, k))

\* the digits ds (no trailing zeros) and the decimal exponent exp in exponent form
ExponentText(neg, ds, exp) ==
    (IF neg THEN <<"-">> ELSE <<>>)
        \o <<ds[1]>>
        \o (IF Len(ds) > 1 THEN <<".">> \o SubSeq(ds, 2, Len(ds)) ELSE <<>>)
        \o <<"e", "+">> \o BToDecimal(BFromInt(exp))

ExponentDigits(neg, len, all, k) ==
    ExponentText(neg, StripZeros(all), len - 1 + (Len(all) - k))

ExponentShortest(neg, len, s) == ExponentDigits(neg, len, BToDecimal(s.n), s.k)

ExponentOf(x, v, len) == ExponentShortest(x.neg, len, ShortestFrom(x, v, len, 1))

ExponentAbove(x, v) == ExponentOf(x, v, Len(BToDecimal(v)))

\* Number::toString of a finite x with |x| >= 10^21: the shortest digits
\* that read back as x, in exponent form
ExponentForm(x) == ExponentAbove(x, Floor(x))

\* the integer nearest to |x| * 10^digits, the larger one on a tie
ScaledHalfUp(x, digits) ==
    LET scaled == BTimesPow10(x.m, digits)
    IN IF x.e >= 0 THEN BShl(scaled, x.e)
       ELSE BShr(BAdd(BShl(scaled, 1), BShl(<<1>>, -x.e)), 1 - x.e)

\* ds with zeros in front up to n digits
ZeroPadded(ds, n) == Zeros(n - Len(ds)) \o ds

\* the digits `padded` with a dot before the last `digits` of them
FixedText(neg, padded, digits) ==
    (IF neg THEN <<"-">> ELSE <<>>)
        \o SubSeq(padded, 1, Len(padded) - digits) \o <<".">>
        \o SubSeq(padded, Len(padded) - digits + 1, Len(padded))

\* x.toFixed(digits)
ToFixed(x, digits) ==
    IF x.kind = "nan" THEN <<"N", "a", "N">>
    ELSE IF x.kind = "infinite"
    THEN (IF x.neg THEN <<"-">> ELSE <<>>) \o InfinityWord
    ELSE IF AtLeastTenTo21(x) THEN ExponentForm(x)
    ELSE FixedText(x.neg /\ ~IsZero(x),
                   ZeroPadded(BToDecimal(ScaledHalfUp(x, digits)), digits + 1), digits)

(***************************************************************************)
(* Rate-limited request executor (src/server.js 252-316) and the client's  *)
(* postJson (src/unnamed/part_001 47-104)                                  *)
(***************************************************************************)
Calls == {1, 2}
Accounts == {"A", "B"}

\* Retry-After header values as character strings; <<>> is the absent header
\* (undefined / null / "", all falsy).
NoHeader == <<>>
RetryAfterHeaders ==
    {NoHeader, <<"0">>, <<"4", "0">>, <<"s", "o", "o", "n">>, <<"-", "5">>,
     <<"0", "x", "1", "f">>}

BackoffUncapped(retryCount) == BackoffBaseMs * Pow2(retryCount)

\* Math.min(1000 * Math.pow(2, retryCount), 32000)
BackoffMs(retryCount) == Min(BackoffBaseMs * Pow2(retryCount), BackoffCapMs)

WaitMsCapped(retryCount, retryAfter) ==
    IF retryAfter # NoHeader
    THEN (IF Less(Number(BackoffCapMs), Times(ParseInt(retryAfter), 1000))
          THEN Number(BackoffCapMs)
          ELSE Times(ParseInt(retryAfter), 1000))
    ELSE Number(BackoffMs(retryCount))

\* retryAfter ? parseInt(retryAfter) * 1000 : backoffMs
WaitMs(retryCount, retryAfter) ==
    IF retryAfter # NoHeader
    THEN Times(ParseInt(retryAfter), 1000)
    ELSE Number(BackoffMs(retryCount))

\* postJson: the same expression, computed from its own retryCount
PostJsonWaitMs(retryCount, retryAfter) ==
    IF retryAfter # NoHeader
    THEN Times(ParseInt(retryAfter), 1000)
    ELSE Number(Min(BackoffBaseMs * Pow2(retryCount), BackoffCapMs))

CanRetryInclusive(retryCount, maxRetries) == retryCount <= maxRetries

\* if (retryCount < maxRetries)
CanRetry(retryCount, maxRetries) == retryCount < maxRetries

\* what axios(config) settles with: a response, or an error with or without one
NoResponse == [hasResponse |-> FALSE, status |-> 0]
Response(status) == [hasResponse |-> TRUE, status |-> status]
OtherErrors == {NoResponse, Response(401), Response(400), Response(500)}
RateLimitError == [hasResponse |-> FALSE, status |-> 429]

IsRateLimitedOrServerError(error) ==
    error.hasResponse /\ (error.status = 429 \/ error.status >= 500)

\* if (error.response && error.response.status === 429)
IsRateLimited(error) == error.hasResponse /\ error.status = 429

\* proxy strings as character sequences; <<>> is the absent one (null, "")
NoProxyString == <<>>
ProxyChars == {"h", "8", ":"}
ProxyStrings == UNION {[1..n -> ProxyChars] : n \in 0..MaxProxyLen}

\* proxyString.split(':'): the segments of chars[i..], `seg` being the one read
RECURSIVE Split(_, _, _)
Split(chars, i, seg) ==
    IF i > Len(chars) THEN <<seg>>
    ELSE IF chars[i] = ":" THEN <<seg>> \o Split(chars, i + 1, <<>>)
    ELSE Split(chars, i + 1, Append(seg, chars[i]))

\* parseProxy returned null: config.proxy is not set
NoProxyConfig ==
    [parsed |-> FALSE, host |-> <<>>, port |-> 0, hasAuth |-> FALSE,
     username |-> <<>>, password |-> <<>>]

\* const [host, port, username, password] = parts: a missing one is undefined
Segment(parts, k) == IF k <= Len(parts) THEN parts[k] ELSE <<>>

HasAuthEither(username, password) == username # <<>> \/ password # <<>>

\* if (username && password)
HasAuth(username, password) == username # <<>> /\ password # <<>>

\* parseProxy(proxyString)
ParseProxy(proxyString) ==
    IF proxyString = NoProxyString THEN NoProxyConfig
    ELSE LET parts == Split(proxyString, 1, <<>>)
             auth == HasAuth(Segment(parts, 3), Segment(parts, 4))
         IN IF Len(parts) < 2 THEN NoProxyConfig
            ELSE [parsed |-> TRUE, host |-> parts[1], port |-> ParseInt(parts[2]),
                  hasAuth |-> auth,
                  username |-> IF auth THEN Segment(parts, 3) ELSE <<>>,
                  password |-> IF auth THEN Segment(parts, 4) ELSE <<>>]

IdleCall == [pc |-> "idle", retryCount |-> 0, maxRetries |-> 0, account |-> "",
             attempts |-> 0, n429 |-> 0, waitMs |-> Number(0), retryAfter |-> NoHeader,
             settled |-> NoResponse, thrown |-> NoResponse,
             proxyString |-> NoProxyString, proxy |-> NoProxyConfig]

NoUsageCounted == [requests |-> 0, rateLimited |-> 1]

NoUsage == [requests |-> 0, rateLimited |-> 0]

\* let rateLimitStats = {...}: every counter 0, no time, no account
ZeroStats ==
    [totalRequests |-> 0, rateLimitedRequests |-> 0, retriedRequests |-> 0,
     failedAfterRetry |-> 0, lastRateLimitTime |-> Absent,
     tokenUsageByAccount |-> [a \in {} |-> NoUsage]]

\* POST /api/reset-rate-limit-stats
ResetRateLimitStats ==
    /\ rateLimitStats' = ZeroStats
    /\ UNCHANGED <<rq, exceptRetry>>

\* a handler calls axiosWithRetry(config, 0, maxRetries, accountName, proxy)
\* with maxRetries among `options` and the proxy string among `proxies`: the
\* code up to `await axios(config)`
RetryStartWith(c, options, proxies) ==
    /\ rq[c].pc = "idle"
    /\ \E m \in options, a \in Accounts, p \in proxies :
        rq' = [rq EXCEPT ![c] = [IdleCall EXCEPT !.pc = "inflight", !.maxRetries = m,
                                               !.account = a, !.attempts = 1,
                                               !.proxyString = p,
                                               !.proxy = ParseProxy(p)]]
    /\ rateLimitStats' = [rateLimitStats EXCEPT !.totalRequests = @ + 1]
    /\ UNCHANGED exceptRetry

RetryStart(c) == RetryStartWith(c, 0..MaxRetriesBound, {NoProxyString})

\* axios resolves: return response
RetryRespondOk(c) ==
    /\ rq[c].pc = "inflight"
    /\ rq' = [rq EXCEPT ![c].pc = "returned", ![c].settled = Response(200)]
    /\ UNCHANGED <<rateLimitStats, exceptRetry>>

\* the statistics after a 429 to the call of `account` at retryCount, at time t
Counted(stats, account, retryCount, t) ==
    LET usage == IF account \in DOMAIN stats.tokenUsageByAccount
                 THEN stats.tokenUsageByAccount[account] ELSE NoUsage
    IN [stats EXCEPT
            !.rateLimitedRequests = IF retryCount = 0 THEN @ + 1 ELSE @,
            !.lastRateLimitTime = IF retryCount = 0 THEN t ELSE @,
            !.retriedRequests = @ + 1,
            !.tokenUsageByAccount =
                [a \in DOMAIN @ \cup {account} |->
                    IF a = account THEN [usage EXCEPT !.rateLimited = @ + 1] ELSE @[a]]]

\* the catch branch taken for `error` as a rate-limit answer carrying the
\* Retry-After header h
Handle429(c, error, h) ==
        LET r == [rq[c] EXCEPT !.settled = error]
            counted == Counted(rateLimitStats, r.account, r.retryCount, now)
        IN IF CanRetry(r.retryCount, r.maxRetries)
           THEN /\ rq' = [rq EXCEPT ![c] = [r EXCEPT !.pc = "waiting",
                              !.n429 = @ + 1, !.retryAfter = h,
                              !.waitMs = WaitMs(r.retryCount, h)]]
                /\ rateLimitStats' = counted
           ELSE /\ rq' = [rq EXCEPT ![c] = [r EXCEPT !.pc = "rateLimitExceeded",
                              !.n429 = @ + 1, !.retryAfter = h,
                              !.thrown = RateLimitError]]
                /\ rateLimitStats' = [counted EXCEPT !.failedAfterRetry = @ + 1]

\* axios rejects with an error other than a 429 response: the catch block
RetryRespondError(c) ==
    /\ rq[c].pc = "inflight"
    /\ \E error \in OtherErrors :
        IF IsRateLimited(error)
        THEN Handle429(c, error, NoHeader)
        ELSE /\ rq' = [rq EXCEPT ![c].pc = "failed", ![c].settled = error,
                                 ![c].thrown = error]      \* throw error
             /\ UNCHANGED rateLimitStats
    /\ UNCHANGED exceptRetry

\* axios rejects with a 429 response carrying one of `headers`: the whole
\* catch branch
RetryRespond429With(c, headers) ==
    /\ rq[c].pc = "inflight"
    /\ \E h \in headers : Handle429(c, Response(429), h)
    /\ UNCHANGED exceptRetry

RetryRespond429(c) == RetryRespond429With(c, RetryAfterHeaders)

\* the timer fires: axiosWithRetry(config, retryCount + 1, ...) up to `await axios`
RetryWake(c) ==
    /\ rq[c].pc = "waiting"
    /\ rq' = [rq EXCEPT ![c] = [@ EXCEPT !.pc = "inflight", !.retryCount = @ + 1,
                                         !.attempts = @ + 1, !.waitMs = Number(0),
                                         !.retryAfter = NoHeader]]
    /\ UNCHANGED <<rateLimitStats, exceptRetry>>

RetryStep(c) ==
    \/ RetryStart(c)
    \/ RetryRespondOk(c)
    \/ RetryRespondError(c)
    \/ RetryRespond429(c)
    \/ RetryWake(c)

(***************************************************************************)
(* postJson (src/unnamed/part_001 47-104)                                  *)
(***************************************************************************)
\* JSON bodies of the server's answers: { success, tokenExpired, operations }
NoJson == [success |-> FALSE, tokenExpired |-> FALSE, operations |-> <<>>]
OkJson == [success |-> TRUE, tokenExpired |-> FALSE, operations |-> <<>>]

IdlePost == [pc |-> "idle", caller |-> "", retryCount |-> 0, n429 |-> 0,
             attempts |-> 0, waitMs |-> Number(0), retryAfter |-> NoHeader, json |-> NoJson]

\* the frame of a postJson call keeps its counters only while it runs
\* postJson(url, body) entered with retryCount = 0, up to `await fetch`
StartedPost(who) == [IdlePost EXCEPT !.pc = "fetching", !.caller = who, !.attempts = 1]

\* bodies a server endpoint answers to an api.* call other than checkStatus
ApiBodies == {OkJson, NoJson}

\* api.generateText(...), api.updateScene(...), ...: postJson(url, payload)
ApiCall ==
    /\ pj.pc = "idle"
    /\ poll.pc = "idle"
    /\ pj' = StartedPost("api")
    /\ UNCHANGED <<poll, exceptClient>>

\* fetch answers 429
PostJsonRespond429 ==
    /\ pj.pc = "fetching"
    /\ job.handler = 0
    /\ \E h \in RetryAfterHeaders :
        IF CanRetry(pj.retryCount, PostJsonMaxRetries)
        THEN pj' = [pj EXCEPT !.pc = "backoff", !.n429 = @ + 1, !.retryAfter = h,
                              !.waitMs = PostJsonWaitMs(pj.retryCount, h)]
        ELSE pj' = [IdlePost EXCEPT !.pc = "thrown", !.caller = pj.caller]
    /\ UNCHANGED <<poll, exceptClient>>

\* sleep(waitMs) is over: postJson(url, body, retryCount + 1, maxRetries)
PostJsonWake ==
    /\ pj.pc = "backoff"
    /\ pj' = [pj EXCEPT !.pc = "fetching", !.retryCount = @ + 1, !.attempts = @ + 1,
                          !.waitMs = Number(0), !.retryAfter = NoHeader]
    /\ UNCHANGED <<poll, exceptClient>>

\* fetch rejects, or answers a non-ok status other than 429: throw
PostJsonRespondError ==
    /\ pj.pc = "fetching"
    /\ job.handler = 0
    /\ pj' = [IdlePost EXCEPT !.pc = "thrown", !.caller = pj.caller]
    /\ UNCHANGED <<poll, exceptClient>>

\* an api.* call other than checkStatus is answered 2xx: return json
PostJsonRespondOk ==
    /\ pj.pc = "fetching"
    /\ pj.caller = "api"
    /\ \E b \in ApiBodies :
        pj' = [IdlePost EXCEPT !.pc = "done", !.caller = pj.caller, !.json = b]
    /\ UNCHANGED <<poll, exceptClient>>

\* the caller of an api.* method takes the result (or the rejection)
ApiReturn ==
    /\ pj.caller = "api"
    /\ pj.pc \in {"done", "thrown"}
    /\ pj' = IdlePost
    /\ UNCHANGED <<poll, exceptClient>>

(***************************************************************************)
(* pollOperation (src/unnamed/part_001 346-410)                            *)
(***************************************************************************)
NoMessage == <<>>
HighTrafficMessage == <<"P", "U", "B", "L", "I", "C", "_", "E", "R", "R", "O", "R",
       "_", "H", "I", "G", "H", "_", "T", "R", "A", "F", "F", "I", "C">>
UnsafeMessage == <<"P", "U", "B", "L", "I", "C", "_", "E", "R", "R", "O", "R", "_",
       "U", "N", "S", "A", "F", "E", "_", "G", "E", "N", "E", "R", "A", "T", "I", "O",
       "N">>
NoOp == [status |-> "", errorMessage |-> NoMessage, mediaId |-> ""]

OpPending == [NoOp EXCEPT !.status = "MEDIA_GENERATION_STATUS_PENDING"]
OpActive == [NoOp EXCEPT !.status = "MEDIA_GENERATION_STATUS_ACTIVE"]
OpSuccessful == [NoOp EXCEPT !.status = "MEDIA_GENERATION_STATUS_SUCCESSFUL",
                             !.mediaId = "m1"]
OpSuccessfulShort == [NoOp EXCEPT !.status = "SUCCESSFUL", !.mediaId = "m2"]
OpHighTraffic == [NoOp EXCEPT !.status = "MEDIA_GENERATION_STATUS_FAILED",
                     !.errorMessage = HighTrafficMessage]
OpUnsafe == [NoOp EXCEPT !.status = "MEDIA_GENERATION_STATUS_FAILED",
                     !.errorMessage = UnsafeMessage]
OpFailedShort == [NoOp EXCEPT !.status = "FAILED"]

StatusOps == {OpPending, OpActive, OpSuccessful, OpSuccessfulShort,
              OpHighTraffic, OpUnsafe, OpFailedShort}

\* what POST /api/veo3/check-status answers (src/server.js 3666-3681)
TokenExpiredJson == [success |-> FALSE, tokenExpired |-> TRUE, operations |-> <<>>]
StatusJson(op) == [success |-> TRUE, tokenExpired |-> FALSE, operations |-> <<op>>]
StatusAnswers == {StatusJson(op) : op \in StatusOps}
                    \cup {TokenExpiredJson, NoJson}

IsSuccessfulShortOnly(st) == st = "SUCCESSFUL"

\* op.status === "SUCCESSFUL" || op.status === "MEDIA_GENERATION_STATUS_SUCCESSFUL"
IsSuccessfulStatus(st) == st \in {"SUCCESSFUL", "MEDIA_GENERATION_STATUS_SUCCESSFUL"}

\* op.status === "FAILED" || op.status === "MEDIA_GENERATION_STATUS_FAILED"
IsFailedStatus(st) == st \in {"FAILED", "MEDIA_GENERATION_STATUS_FAILED"}

IsAnyFailure(msg) == TRUE

\* errorMsg.includes('HIGH_TRAFFIC')
IsHighTraffic(msg) ==
    Includes(msg, <<"H", "I", "G", "H", "_", "T", "R", "A", "F", "F", "I", "C">>)

HighTrafficSleepSingle(intervalMs) == intervalMs

\* sleep(intervalMs * 2)
HighTrafficSleep(intervalMs) == intervalMs * 2

MaxTriesOptions == (0..MaxTriesBound) \cup {DefaultMaxTries}
IntervalOptions == {DefaultIntervalMs, 1000}

IdlePoll == [pc |-> "idle", i |-> 0, maxTries |-> 0, intervalMs |-> 0,
             checks |-> 0, answers |-> <<>>, sleepMs |-> 0,
             result |-> NoOp, error |-> ""]

\* the loop head `i < maxTries`, then api.checkStatus(...) or the timeout throw
LoopHead(p) ==
    IF p.i < p.maxTries
    THEN /\ poll' = [p EXCEPT !.pc = "checking", !.checks = @ + 1, !.sleepMs = 0]
         /\ pj' = StartedPost("poll")
    ELSE /\ poll' = [p EXCEPT !.pc = "thrown", !.error = "Timeout polling status"]
         /\ pj' = IdlePost

\* pollOperation(opId, { intervalMs, maxTries, tokenName })
PollStartWith(budgets, intervals) ==
    /\ poll.pc = "idle"
    /\ pj.pc = "idle"
    /\ \E m \in budgets, iv \in intervals :
        LoopHead([IdlePoll EXCEPT !.maxTries = m, !.intervalMs = iv])
    /\ UNCHANGED exceptClient

PollStart == PollStartWith(MaxTriesOptions, IntervalOptions)

\* the check-status endpoint answers 2xx: postJson returns its json
PostJsonRespondStatus ==
    /\ pj.pc = "fetching"
    /\ pj.caller = "poll"
    /\ \E b \in StatusAnswers :
        pj' = [IdlePost EXCEPT !.pc = "done", !.caller = pj.caller, !.json = b]
    /\ UNCHANGED <<poll, exceptClient>>

Remember(answers, res) ==
    IF Len(answers) < AnswerHistory THEN Append(answers, res) ELSE answers

\* `await api.checkStatus` settles: the loop body after it
PollHandle ==
    /\ poll.pc = "checking"
    /\ pj.pc \in {"done", "thrown"}
    /\ pj' = IdlePost
    /\ IF pj.pc = "thrown"
       THEN poll' = [poll EXCEPT !.pc = "thrown", !.error = "postJson"]
       ELSE LET res == pj.json
                seen == [poll EXCEPT !.answers = Remember(@, res)]
            IN IF ~res.success /\ res.tokenExpired
               THEN poll' = [seen EXCEPT !.pc = "thrown", !.error = "Token expired"]
               ELSE IF Len(res.operations) = 0
               THEN poll' = [seen EXCEPT !.pc = "thrown",
                                         !.error = "Invalid status payload"]
               ELSE LET op == res.operations[1] IN
                    IF IsSuccessfulStatus(op.status)
                    THEN poll' = [seen EXCEPT !.pc = "returned", !.result = op]
                    ELSE IF IsFailedStatus(op.status)
                    THEN IF IsHighTraffic(op.errorMessage)
                         THEN poll' = [seen EXCEPT !.pc = "sleeping",
                                    !.sleepMs = HighTrafficSleep(poll.intervalMs)]
                         ELSE poll' = [seen EXCEPT !.pc = "thrown",
                                                   !.error = "Generation failed"]
                    ELSE poll' = [seen EXCEPT !.pc = "sleeping",
                                              !.sleepMs = poll.intervalMs]
    /\ UNCHANGED exceptClient

\* the sleep is over: i++ and the loop head
PollWake ==
    /\ poll.pc = "sleeping"
    /\ LoopHead([poll EXCEPT !.i = @ + 1])
    /\ UNCHANGED exceptClient

\* the caller takes the result; a later pollOperation call starts afresh
PollReturn ==
    /\ poll.pc \in {"returned", "thrown"}
    /\ poll' = IdlePoll
    /\ UNCHANGED <<pj, exceptClient>>

(***************************************************************************)
(* Decimal-seconds strings of the clip list (src/mẫu/index.js 560-563)     *)
(***************************************************************************)
\* index of the first ch in chars, 0 when there is none
RECURSIVE IndexOf(_, _, _)
IndexOf(chars, ch, i) ==
    IF i > Len(chars) THEN 0
    ELSE IF chars[i] = ch THEN i
    ELSE IndexOf(chars, ch, i + 1)

\* str.replace('s', ''): the first "s" removed
RemoveFirstS(chars) ==
    LET k == IndexOf(chars, "s", 1) IN
    IF k = 0 THEN chars
    ELSE SubSeq(chars, 1, k - 1) \o SubSeq(chars, k + 1, Len(chars))

\* the Number literals 0.000000001 and 7.000000001
ClipEpsilon == ParseFloat(<<"0", ".", "0", "0", "0", "0", "0", "0", "0", "0", "1">>)
ClipSpan == ParseFloat(<<"7", ".", "0", "0", "0", "0", "0", "0", "0", "0", "1">>)

(***************************************************************************)
(* runAutoLogger (src/mẫu/index.js 188-624): scene capture, prompt loop,   *)
(* batch poll loop and scene update                                        *)
(***************************************************************************)

\* prompts, as their characters
PromptTexts == { <<"(", "N", "E", "W", ")", " ", "s", "u", "n", "r", "i", "s", "e">>,
                 <<"(", "N", "e", "w", ")", " ", "x">>,
                 <<"(", "c", "o", "n", "t", "i", "n", "u", "e", ")", " ", "w", "a", "v", "e", "s">>,
                 <<"g", "u", "l", "l", "s">> }

\* the letters of a regular expression with the flag i
UpperCase == <<"A", "B", "C", "D", "E", "F", "G", "H", "I", "J", "K", "L", "M",
               "N", "O", "P", "Q", "R", "S", "T", "U", "V", "W", "X", "Y", "Z">>
LowerCase == <<"a", "b", "c", "d", "e", "f", "g", "h", "i", "j", "k", "l", "m",
               "n", "o", "p", "q", "r", "s", "t", "u", "v", "w", "x", "y", "z">>

\* Canonicalize of a regular expression with the flag i and without the flag
\* u: the upper case of a character, unless that takes a character beyond
\* ASCII into ASCII; as far as matching a pattern of ASCII letters goes
Canonicalize(ch) ==
    IF \E k \in 1..Len(LowerCase) : LowerCase[k] = ch
    THEN UpperCase[CHOOSE k \in 1..Len(LowerCase) : LowerCase[k] = ch]
    ELSE ch

(***************************************************************************)
(* String.prototype.toLowerCase: the Unicode lower case of a string, over  *)
(* the characters the text of a module can hold; a lower-case form outside *)
(* of them is written by its code point ("U+0253")                         *)
(***************************************************************************)
\* the letters with a lower-case form of their own, and those forms
UpperLetters == <<
    "A", "B", "C", "D", "E", "F", "G", "H", "I", "J", "K", "L", "M", "N", "O", "P", "Q", "R",
    "S", "T", "U", "V", "W", "X", "Y", "Z", "À", "Á", "Â", "Ã", "Ä", "Å", "Æ", "Ç", "È", "É",
    "Ê", "Ë", "Ì", "Í", "Î", "Ï", "Ð", "Ñ", "Ò", "Ó", "Ô", "Õ", "Ö", "Ø", "Ù", "Ú", "Û", "Ü",
    "Ý", "Þ", "Ɓ", "Ƃ", "Ƅ", "Ɔ", "Ƈ", "Ɖ", "Ɗ", "Ƌ", "Ǝ", "Ə", "Ɛ", "Ƒ", "Ɠ", "Ɣ", "Ɩ", "Ɨ",
    "Ƙ", "Ɯ", "Ɲ", "Ɵ", "Ơ", "Ƣ", "Ƥ", "Ʀ", "Ƨ", "Ʃ", "Ƭ", "Ʈ", "Ư", "Ʊ", "Ʋ", "Ƴ", "Ƶ", "Ʒ",
    "Ƹ", "Ƽ", "Ǆ", "ǅ", "Ǉ", "ǈ", "Ǌ", "ǋ", "Ǎ", "Ǐ", "Ǒ", "Ǔ", "Ǖ", "Ǘ", "Ǚ", "Ǜ", "Ǟ", "Ǡ",
    "Ǣ", "Ǥ", "Ǧ", "Ǩ", "Ǫ", "Ǭ", "Ǯ", "Ǳ", "ǲ", "Ǵ", "Ƕ", "Ƿ", "Ǹ", "Ǻ", "Ǽ", "Ǿ", "Ά", "Έ",
    "Ή", "Ί", "Ό", "Ύ", "Ώ", "Α", "Β", "Γ", "Δ", "Ε", "Ζ", "Η", "Θ", "Ι", "Κ", "Λ", "Μ", "Ν",
    "Ξ", "Ο", "Π", "Ρ", "Τ", "Υ", "Φ", "Χ", "Ψ", "Ω", "Ϊ", "Ϋ", "Ϗ", "Ϙ", "Ϛ", "Ϝ", "Ϟ", "Ϡ",
    "Ϣ", "Ϥ", "Ϧ", "Ϩ", "Ϫ", "Ϭ", "Ϯ", "ϴ", "Ϸ", "Ϲ", "Ϻ", "Ͻ", "Ͼ", "Ͽ", "Ҁ", "Ҋ", "Ҍ", "Ҏ",
    "Ґ", "Ғ", "Ҕ", "Җ", "Ҙ", "Қ", "Ҝ", "Ҟ", "Ҡ", "Ң", "Ҥ", "Ҧ", "Ҩ", "Ҫ", "Ҭ", "Ү", "Ұ", "Ҳ",
    "Ҵ", "Ҷ", "Ҹ", "Һ", "Ҽ", "Ҿ", "Ӏ", "Ӂ", "Ӄ", "Ӆ", "Ӈ", "Ӊ", "Ӌ", "Ӎ", "Ӑ", "Ӓ", "Ӕ", "Ӗ",
    "Ә", "Ӛ", "Ӝ", "Ӟ", "Ӡ", "Ӣ", "Ӥ", "Ӧ", "Ө", "Ӫ", "Ӭ", "Ӯ", "Ӱ", "Ӳ", "Ӵ", "Ӷ", "Ӹ", "Ӻ",
    "Ӽ", "Ӿ", "Ⴀ", "Ⴁ", "Ⴂ", "Ⴃ", "Ⴄ", "Ⴅ", "Ⴆ", "Ⴇ", "Ⴈ", "Ⴉ", "Ⴊ", "Ⴋ", "Ⴌ", "Ⴍ", "Ⴎ", "Ⴏ",
    "Ⴐ", "Ⴑ", "Ⴒ", "Ⴓ", "Ⴔ", "Ⴕ", "Ⴖ", "Ⴗ", "Ⴘ", "Ⴙ", "Ⴚ", "Ⴛ", "Ⴜ", "Ⴝ", "Ⴞ", "Ⴟ", "Ⴠ", "Ⴡ",
    "Ⴢ", "Ⴣ", "Ⴤ", "Ⴥ", "Ⴧ", "Ⴭ", "Ꭰ", "Ꭱ", "Ꭲ", "Ꭳ", "Ꭴ", "Ꭵ", "Ꭶ", "Ꭷ", "Ꭸ", "Ꭹ", "Ꭺ", "Ꭻ",
    "Ꭼ", "Ꭽ", "Ꭾ", "Ꭿ", "Ꮀ", "Ꮁ", "Ꮂ", "Ꮃ", "Ꮄ", "Ꮅ", "Ꮆ", "Ꮇ", "Ꮈ", "Ꮉ", "Ꮊ", "Ꮋ", "Ꮌ", "Ꮍ",
    "Ꮎ", "Ꮏ", "Ꮐ", "Ꮑ", "Ꮒ", "Ꮓ", "Ꮔ", "Ꮕ", "Ꮖ", "Ꮗ", "Ꮘ", "Ꮙ", "Ꮚ", "Ꮛ", "Ꮜ", "Ꮝ", "Ꮞ", "Ꮟ",
    "Ꮠ", "Ꮡ", "Ꮢ", "Ꮣ", "Ꮤ", "Ꮥ", "Ꮦ", "Ꮧ", "Ꮨ", "Ꮩ", "Ꮪ", "Ꮫ", "Ꮬ", "Ꮭ", "Ꮮ", "Ꮯ", "Ꮰ", "Ꮱ",
    "Ꮲ", "Ꮳ", "Ꮴ", "Ꮵ", "Ꮶ", "Ꮷ", "Ꮸ", "Ꮹ", "Ꮺ", "Ꮻ", "Ꮼ", "Ꮽ", "Ꮾ", "Ꮿ", "Ᏸ", "Ᏹ", "Ᏺ", "Ᏻ",
    "Ᏼ", "Ᏽ", "Ᲊ", "Ა", "Ბ", "Გ", "Დ", "Ე", "Ვ", "Ზ", "Თ", "Ი", "Კ", "Ლ", "Მ", "Ნ", "Ო", "Პ",
    "Ჟ", "Რ", "Ს", "Ტ", "Უ", "Ფ", "Ქ", "Ღ", "Ყ", "Შ", "Ჩ", "Ც", "Ძ", "Წ", "Ჭ", "Ხ", "Ჯ", "Ჰ",
    "Ჱ", "Ჲ", "Ჳ", "Ჴ", "Ჵ", "Ჶ", "Ჷ", "Ჸ", "Ჹ", "Ჺ", "Ჽ", "Ჾ", "Ჿ", "Ẁ", "Ẃ", "Ẅ", "Ẇ", "Ẉ",
    "Ẋ", "Ẍ", "Ẏ", "Ẑ", "Ẓ", "Ẕ", "ẞ", "Ạ", "Ả", "Ấ", "Ầ", "Ẩ", "Ẫ", "Ậ", "Ắ", "Ằ", "Ẳ", "Ẵ",
    "Ặ", "Ẹ", "Ẻ", "Ẽ", "Ế", "Ề", "Ể", "Ễ", "Ệ", "Ỉ", "Ị", "Ọ", "Ỏ", "Ố", "Ồ", "Ổ", "Ỗ", "Ộ",
    "Ớ", "Ờ", "Ở", "Ỡ", "Ợ", "Ụ", "Ủ", "Ứ", "Ừ", "Ử", "Ữ", "Ự", "Ỳ", "Ỵ", "Ỷ", "Ỹ", "Ỻ", "Ỽ",
    "Ỿ", "ᾈ", "ᾉ", "ᾊ", "ᾋ", "ᾌ", "ᾍ", "ᾎ", "ᾏ", "ᾘ", "ᾙ", "ᾚ", "ᾛ", "ᾜ", "ᾝ", "ᾞ", "ᾟ", "ᾨ",
    "ᾩ", "ᾪ", "ᾫ", "ᾬ", "ᾭ", "ᾮ", "ᾯ", "Ᾰ", "Ᾱ", "Ὰ", "Ά", "ᾼ", "Ὲ", "Έ", "Ὴ", "Ή", "ῌ", "Ῐ",
    "Ῑ", "Ὶ", "Ί", "Ῠ", "Ῡ", "Ὺ", "Ύ", "Ῥ", "Ὸ", "Ό", "Ὼ", "Ώ", "ῼ", "Ↄ", "Ⓐ", "Ⓑ", "Ⓒ", "Ⓓ",
    "Ⓔ", "Ⓕ", "Ⓖ", "Ⓗ", "Ⓘ", "Ⓙ", "Ⓚ", "Ⓛ", "Ⓜ", "Ⓝ", "Ⓞ", "Ⓟ", "Ⓠ", "Ⓡ", "Ⓢ", "Ⓣ", "Ⓤ", "Ⓥ",
    "Ⓦ", "Ⓧ", "Ⓨ", "Ⓩ", "Ⲁ", "Ⲃ", "Ⲅ", "Ⲇ", "Ⲉ", "Ⲋ", "Ⲍ", "Ⲏ", "Ⲑ", "Ⲓ", "Ⲕ", "Ⲗ", "Ⲙ", "Ⲛ",
    "Ⲝ", "Ⲟ", "Ⲡ", "Ⲣ", "Ⲥ", "Ⲧ", "Ⲩ", "Ⲫ", "Ⲭ", "Ⲯ", "Ⲱ", "Ⲳ", "Ⲵ", "Ⲷ", "Ⲹ", "Ⲻ", "Ⲽ", "Ⲿ",
    "Ⳁ", "Ⳃ", "Ⳅ", "Ⳇ", "Ⳉ", "Ⳋ", "Ⳍ", "Ⳏ", "Ⳑ", "Ⳓ", "Ⳕ", "Ⳗ", "Ⳙ", "Ⳛ", "Ⳝ", "Ⳟ", "Ⳡ", "Ⳣ",
    "Ⳬ", "Ⳮ", "Ⳳ", "Ꚁ", "Ꚃ", "Ꚅ", "Ꚇ", "Ꚉ", "Ꚋ", "Ꚍ", "Ꚏ", "Ꚑ", "Ꚓ", "Ꚕ", "Ꚗ", "Ꚙ", "Ꚛ", "Ꞁ",
    "Ꞃ", "Ꞅ", "Ꞇ", "Ꞌ", "Ɥ", "Ꞑ", "Ꞓ", "Ꞗ", "Ꞙ", "Ꞛ", "Ꞝ", "Ꞟ", "Ꞡ", "Ꞣ", "Ꞥ", "Ꞧ", "Ꞩ", "Ɦ",
    "Ɜ", "Ɡ", "Ɬ", "Ɪ", "Ʞ", "Ʇ", "Ʝ", "Ꭓ", "Ꞵ", "Ꞷ", "Ꞹ", "Ꞻ", "Ꞽ", "Ꞿ", "Ꟁ", "Ꟃ", "Ꞔ", "Ʂ",
    "Ᶎ", "Ꟈ", "Ꟊ", "Ɤ", "Ꟍ", "꟎", "Ꟑ", "꟒", "꟔", "Ꟗ", "Ꟙ", "Ꟛ", "Ƛ", "Ꟶ" >>
LowerLetters == <<
    "a", "b", "c", "d", "e", "f", "g", "h", "i", "j", "k", "l", "m", "n", "o", "p", "q", "r",
    "s", "t", "u", "v", "w", "x", "y", "z", "à", "á", "â", "ã", "ä", "å", "æ", "ç", "è", "é",
    "ê", "ë", "ì", "í", "î", "ï", "ð", "ñ", "ò", "ó", "ô", "õ", "ö", "ø", "ù", "ú", "û", "ü",
    "ý", "þ", "U+0253", "ƃ", "ƅ", "U+0254", "ƈ", "U+0256", "U+0257", "ƌ", "ǝ", "U+0259",
    "U+025B", "ƒ", "U+0260", "U+0263", "U+0269", "U+0268", "ƙ", "U+026F", "U+0272", "U+0275",
    "ơ", "ƣ", "ƥ", "ʀ", "ƨ", "ʃ", "ƭ", "ʈ", "ư", "ʊ", "ʋ", "ƴ", "ƶ", "ʒ", "ƹ", "ƽ", "ǆ", "ǆ",
    "ǉ", "ǉ", "ǌ", "ǌ", "ǎ", "ǐ", "ǒ", "ǔ", "ǖ", "ǘ", "ǚ", "ǜ", "ǟ", "ǡ", "ǣ", "ǥ", "ǧ", "ǩ",
    "ǫ", "ǭ", "ǯ", "ǳ", "ǳ", "ǵ", "ƕ", "ƿ", "ǹ", "ǻ", "ǽ", "ǿ", "ά", "έ", "ή", "ί", "ό", "ύ",
    "ώ", "α", "β", "γ", "δ", "ε", "ζ", "η", "θ", "ι", "κ", "λ", "μ", "ν", "ξ", "ο", "π", "ρ",
    "τ", "υ", "φ", "χ", "ψ", "ω", "ϊ", "ϋ", "ϗ", "ϙ", "ϛ", "ϝ", "ϟ", "ϡ", "ϣ", "ϥ", "ϧ", "ϩ",
    "ϫ", "ϭ", "ϯ", "θ", "ϸ", "ϲ", "ϻ", "U+037B", "U+037C", "U+037D", "ҁ", "ҋ", "ҍ", "ҏ", "ґ",
    "ғ", "ҕ", "җ", "ҙ", "қ", "ҝ", "ҟ", "ҡ", "ң", "ҥ", "ҧ", "ҩ", "ҫ", "ҭ", "ү", "ұ", "ҳ", "ҵ",
    "ҷ", "ҹ", "һ", "ҽ", "ҿ", "ӏ", "ӂ", "ӄ", "ӆ", "ӈ", "ӊ", "ӌ", "ӎ", "ӑ", "ӓ", "ӕ", "ӗ", "ә",
    "ӛ", "ӝ", "ӟ", "ӡ", "ӣ", "ӥ", "ӧ", "ө", "ӫ", "ӭ", "ӯ", "ӱ", "ӳ", "ӵ", "ӷ", "ӹ", "ӻ", "ӽ",
    "ӿ", "U+2D00", "U+2D01", "U+2D02", "U+2D03", "U+2D04", "U+2D05", "U+2D06", "U+2D07",
    "U+2D08", "U+2D09", "U+2D0A", "U+2D0B", "U+2D0C", "U+2D0D", "U+2D0E", "U+2D0F", "U+2D10",
    "U+2D11", "U+2D12", "U+2D13", "U+2D14", "U+2D15", "U+2D16", "U+2D17", "U+2D18", "U+2D19",
    "U+2D1A", "U+2D1B", "U+2D1C", "U+2D1D", "U+2D1E", "U+2D1F", "U+2D20", "U+2D21", "U+2D22",
    "U+2D23", "U+2D24", "U+2D25", "U+2D27", "U+2D2D", "U+AB70", "U+AB71", "U+AB72", "U+AB73",
    "U+AB74", "U+AB75", "U+AB76", "U+AB77", "U+AB78", "U+AB79", "U+AB7A", "U+AB7B", "U+AB7C",
    "U+AB7D", "U+AB7E", "U+AB7F", "ꮀ", "ꮁ", "ꮂ", "ꮃ", "ꮄ", "ꮅ", "ꮆ", "ꮇ", "ꮈ", "ꮉ", "ꮊ", "ꮋ",
    "ꮌ", "ꮍ", "ꮎ", "ꮏ", "ꮐ", "ꮑ", "ꮒ", "ꮓ", "ꮔ", "ꮕ", "ꮖ", "ꮗ", "ꮘ", "ꮙ", "ꮚ", "ꮛ", "ꮜ", "ꮝ",
    "ꮞ", "ꮟ", "ꮠ", "ꮡ", "ꮢ", "ꮣ", "ꮤ", "ꮥ", "ꮦ", "ꮧ", "ꮨ", "ꮩ", "ꮪ", "ꮫ", "ꮬ", "ꮭ", "ꮮ", "ꮯ",
    "ꮰ", "ꮱ", "ꮲ", "ꮳ", "ꮴ", "ꮵ", "ꮶ", "ꮷ", "ꮸ", "ꮹ", "ꮺ", "ꮻ", "ꮼ", "ꮽ", "ꮾ", "ꮿ", "ᏸ", "ᏹ",
    "ᏺ", "ᏻ", "ᏼ", "ᏽ", "ᲊ", "ა", "ბ", "გ", "დ", "ე", "ვ", "ზ", "თ", "ი", "კ", "ლ", "მ", "ნ",
    "ო", "პ", "ჟ", "რ", "ს", "ტ", "უ", "ფ", "ქ", "ღ", "ყ", "შ", "ჩ", "ც", "ძ", "წ", "ჭ", "ხ",
    "ჯ", "ჰ", "ჱ", "ჲ", "ჳ", "ჴ", "ჵ", "ჶ", "ჷ", "ჸ", "ჹ", "ჺ", "ჽ", "ჾ", "ჿ", "ẁ", "ẃ", "ẅ",
    "ẇ", "ẉ", "ẋ", "ẍ", "ẏ", "ẑ", "ẓ", "ẕ", "ß", "ạ", "ả", "ấ", "ầ", "ẩ", "ẫ", "ậ", "ắ", "ằ",
    "ẳ", "ẵ", "ặ", "ẹ", "ẻ", "ẽ", "ế", "ề", "ể", "ễ", "ệ", "ỉ", "ị", "ọ", "ỏ", "ố", "ồ", "ổ",
    "ỗ", "ộ", "ớ", "ờ", "ở", "ỡ", "ợ", "ụ", "ủ", "ứ", "ừ", "ử", "ữ", "ự", "ỳ", "ỵ", "ỷ", "ỹ",
    "ỻ", "ỽ", "ỿ", "ᾀ", "ᾁ", "ᾂ", "ᾃ", "ᾄ", "ᾅ", "ᾆ", "ᾇ", "ᾐ", "ᾑ", "ᾒ", "ᾓ", "ᾔ", "ᾕ", "ᾖ",
    "ᾗ", "ᾠ", "ᾡ", "ᾢ", "ᾣ", "ᾤ", "ᾥ", "ᾦ", "ᾧ", "ᾰ", "ᾱ", "U+1F70", "U+1F71", "ᾳ", "U+1F72",
    "U+1F73", "U+1F74", "U+1F75", "ῃ", "ῐ", "ῑ", "U+1F76", "U+1F77", "ῠ", "ῡ", "U+1F7A",
    "U+1F7B", "ῥ", "U+1F78", "U+1F79", "U+1F7C", "U+1F7D", "ῳ", "ↄ", "ⓐ", "ⓑ", "ⓒ", "ⓓ", "ⓔ",
    "ⓕ", "ⓖ", "ⓗ", "ⓘ", "ⓙ", "ⓚ", "ⓛ", "ⓜ", "ⓝ", "ⓞ", "ⓟ", "ⓠ", "ⓡ", "ⓢ", "ⓣ", "ⓤ", "ⓥ", "ⓦ",
    "ⓧ", "ⓨ", "ⓩ", "ⲁ", "ⲃ", "ⲅ", "ⲇ", "ⲉ", "ⲋ", "ⲍ", "ⲏ", "ⲑ", "ⲓ", "ⲕ", "ⲗ", "ⲙ", "ⲛ", "ⲝ",
    "ⲟ", "ⲡ", "ⲣ", "ⲥ", "ⲧ", "ⲩ", "ⲫ", "ⲭ", "ⲯ", "ⲱ", "ⲳ", "ⲵ", "ⲷ", "ⲹ", "ⲻ", "ⲽ", "ⲿ", "ⳁ",
    "ⳃ", "ⳅ", "ⳇ", "ⳉ", "ⳋ", "ⳍ", "ⳏ", "ⳑ", "ⳓ", "ⳕ", "ⳗ", "ⳙ", "ⳛ", "ⳝ", "ⳟ", "ⳡ", "ⳣ", "ⳬ",
    "ⳮ", "ⳳ", "ꚁ", "ꚃ", "ꚅ", "ꚇ", "ꚉ", "ꚋ", "ꚍ", "ꚏ", "ꚑ", "ꚓ", "ꚕ", "ꚗ", "ꚙ", "ꚛ", "ꞁ", "ꞃ",
    "ꞅ", "ꞇ", "ꞌ", "U+0265", "ꞑ", "ꞓ", "ꞗ", "ꞙ", "ꞛ", "ꞝ", "ꞟ", "ꞡ", "ꞣ", "ꞥ", "ꞧ", "ꞩ",
    "U+0266", "U+025C", "U+0261", "U+026C", "U+026A", "ʞ", "ʇ", "ʝ", "U+AB53", "ꞵ", "ꞷ", "ꞹ",
    "ꞻ", "ꞽ", "ꞿ", "ꟁ", "ꟃ", "ꞔ", "ʂ", "ᶎ", "ꟈ", "ꟊ", "U+0264", "ꟍ", "꟏", "ꟑ", "ꟓ", "ꟕ", "ꟗ",
    "ꟙ", "ꟛ", "ƛ", "ꟶ" >>

\* the other characters with the property Cased
OtherCased == {
    "ª", "µ", "º", "ÿ", "ƀ", "ƍ", "ƚ", "ƞ", "ƪ", "ƫ", "ƺ", "ƾ", "ǰ", "ʁ", "ʄ", "ʅ", "ʆ", "ʉ",
    "ʌ", "ʍ", "ʎ", "ʏ", "ʐ", "ʑ", "ʓ", "ʖ", "ʗ", "ʘ", "ʙ", "ʚ", "ʛ", "ʜ", "ʟ", "ʠ", "ʡ", "ʢ",
    "ʣ", "ʤ", "ʥ", "ʦ", "ʧ", "ʨ", "ʩ", "ʪ", "ʫ", "ʬ", "ʭ", "ʮ", "ʯ", "ΐ", "ΰ", "ς", "σ", "ϐ",
    "ϑ", "ϒ", "ϓ", "ϔ", "ϕ", "ϖ", "ϰ", "ϱ", "ϳ", "ϵ", "ϼ", "ր", "ց", "ւ", "փ", "ք", "օ", "ֆ",
    "և", "ֈ", "ᲀ", "ᲁ", "ᲂ", "ᲃ", "ᲄ", "ᲅ", "ᲆ", "ᲇ", "ᲈ", "ᶀ", "ᶁ", "ᶂ", "ᶃ", "ᶄ", "ᶅ", "ᶆ",
    "ᶇ", "ᶈ", "ᶉ", "ᶊ", "ᶋ", "ᶌ", "ᶍ", "ᶏ", "ᶐ", "ᶑ", "ᶒ", "ᶓ", "ᶔ", "ᶕ", "ᶖ", "ᶗ", "ᶘ", "ᶙ",
    "ᶚ", "ẖ", "ẗ", "ẘ", "ẙ", "ẚ", "ẛ", "ẜ", "ẝ", "ẟ", "ᾲ", "ᾴ", "ᾶ", "ᾷ", "ι", "ῂ", "ῄ", "ῆ",
    "ῇ", "ῒ", "ΐ", "ῖ", "ῗ", "ῢ", "ΰ", "ῤ", "ῦ", "ῧ", "ῲ", "ῴ", "ῶ", "ῷ", "ⳤ", "ꞎ", "ꞕ", "ꞯ",
    "ꟺ" }

\* the characters with the property Case_Ignorable
CaseIgnorable == {
    "'", ".", ":", "^", "¨", "­", "¯", "´", "·", "¸", "ʰ", "ʱ", "ʲ", "ʳ", "ʴ", "ʵ", "ʶ", "ʷ",
    "ʸ", "ʹ", "ʺ", "ʻ", "ʼ", "ʽ", "ʾ", "ʿ", "ˀ", "ˁ", "˂", "˃", "˄", "˅", "ˆ", "ˇ", "ˈ", "ˉ",
    "ˊ", "ˋ", "ˌ", "ˍ", "ˎ", "ˏ", "ː", "ˑ", "˒", "˓", "˔", "˕", "˖", "˗", "˘", "˙", "˚", "˛",
    "˜", "˝", "˞", "˟", "ˠ", "ˡ", "ˢ", "ˣ", "ˤ", "˥", "˦", "˧", "˨", "˩", "˪", "˫", "ˬ", "˭",
    "ˮ", "˯", "˰", "˱", "˲", "˳", "˴", "˵", "˶", "˷", "˸", "˹", "˺", "˻", "˼", "˽", "˾", "˿",
    "΄", "΅", "·", "҃", "҄", "҅", "҆", "҇", "҈", "҉", "֑", "֒", "֓", "֔", "֕", "֖", "֗", "֘",
    "֙", "֚", "֛", "֜", "֝", "֞", "֟", "֠", "֡", "֢", "֣", "֤", "֥", "֦", "֧", "֨", "֩", "֪",
    "֫", "֬", "֭", "֮", "֯", "ְ", "ֱ", "ֲ", "ֳ", "ִ", "ֵ", "ֶ", "ַ", "ָ", "ֹ", "ֺ", "ֻ", "ּ",
    "ֽ", "ֿ", "ׁ", "ׂ", "ׄ", "ׅ", "ׇ", "״", "ۖ", "ۗ", "ۘ", "ۙ", "ۚ", "ۛ", "ۜ", "۝", "۟", "۠",
    "ۡ", "ۢ", "ۣ", "ۤ", "ۥ", "ۦ", "ۧ", "ۨ", "۪", "۫", "۬", "ۭ", "ަ", "ާ", "ި", "ީ", "ު", "ޫ",
    "ެ", "ޭ", "ޮ", "ޯ", "ް", "߫", "߬", "߭", "߮", "߯", "߰", "߱", "߲", "߳", "ߴ", "ߵ", "ߺ", "߽",
    "࢈", "࢐", "࢑", "ࢗ", "࢘", "࢙", "࢚", "࢛", "࢜", "࢝", "࢞", "࢟", "ࣉ", "࣊", "࣋", "࣌", "࣍", "࣎",
    "࣏", "࣐", "࣑", "࣒", "࣓", "ࣔ", "ࣕ", "ࣖ", "ࣗ", "ࣘ", "ࣙ", "ࣚ", "ࣛ", "ࣜ", "ࣝ", "ࣞ", "ࣟ", "࣠",
    "࣡", "࣢", "ࣣ", "ࣤ", "ࣥ", "ࣦ", "ࣧ", "ࣨ", "ࣩ", "࣪", "࣫", "࣬", "࣭", "࣮", "࣯", "ࣰ", "ࣱ", "ࣲ",
    "ࣳ", "ࣴ", "ࣵ", "ࣶ", "ࣷ", "ࣸ", "ࣹ", "ࣺ", "ࣻ", "ࣼ", "ࣽ", "ࣾ", "ࣿ", "ঁ", "়", "ু", "ূ", "ৃ",
    "ৄ", "্", "ৢ", "ৣ", "৾", "ઁ", "ં", "઼", "ુ", "ૂ", "ૃ", "ૄ", "ૅ", "ે", "ૈ", "્", "ૢ", "ૣ",
    "ૺ", "ૻ", "ૼ", "૽", "૾", "૿", "ஂ", "ீ", "்", "ಁ", "಼", "ಿ", "ೆ", "ೌ", "್", "ೢ", "ೣ", "ඁ",
    "්", "ි", "ී", "ු", "ූ", "ັ", "ິ", "ີ", "ຶ", "ື", "ຸ", "ູ", "຺", "ົ", "ຼ", "ໆ", "່", "້",
    "໊", "໋", "໌", "ໍ", "໎", "ྀ", "ཱྀ", "ྂ", "ྃ", "྄", "྆", "྇", "ྍ", "ྎ", "ྏ", "ྐ", "ྑ", "ྒ",
    "ྒྷ", "ྔ", "ྕ", "ྖ", "ྗ", "ྙ", "ྚ", "ྛ", "ྜ", "ྜྷ", "ྞ", "ྟ", "ྠ", "ྡ", "ྡྷ", "ྣ", "ྤ", "ྥ",
    "ྦ", "ྦྷ", "ྨ", "ྩ", "ྪ", "ྫ", "ྫྷ", "ྭ", "ྮ", "ྯ", "ྰ", "ྱ", "ྲ", "ླ", "ྴ", "ྵ", "ྶ", "ྷ",
    "ྸ", "ྐྵ", "ྺ", "ྻ", "ྼ", "࿆", "ႂ", "ႅ", "ႆ", "ႍ", "ႝ", "ჼ", "឴", "឵", "ិ", "ី", "ឹ", "ឺ",
    "ុ", "ូ", "ួ", "ំ", "៉", "៊", "់", "៌", "៍", "៎", "៏", "័", "៑", "្", "៓", "ៗ", "៝", "ᢅ",
    "ᢆ", "ᢩ", "ᪧ", "᪰", "᪱", "᪲", "᪳", "᪴", "᪵", "᪶", "᪷", "᪸", "᪹", "᪺", "᪻", "᪼", "᪽", "᪾",
    "ᪿ", "ᫀ", "᫁", "᫂", "᫃", "᫄", "᫅", "᫆", "᫇", "᫈", "᫉", "᫊", "᫋", "ᫌ", "ᫍ", "ᫎ", "᫏", "᫐",
    "᫑", "᫒", "᫓", "᫔", "᫕", "᫖", "᫗", "᫘", "᫙", "᫚", "᫛", "᫜", "᫝", "᫠", "᫡", "᫢", "᫣", "᫤",
    "᫥", "᫦", "᫧", "᫨", "᫩", "᫪", "᫫", "ᮀ", "ᮁ", "ᮢ", "ᮣ", "ᮤ", "ᮥ", "ᮨ", "ᮩ", "᮫", "ᮬ", "ᮭ",
    "᯦", "ᯨ", "ᯩ", "ᯭ", "ᯯ", "ᯰ", "ᯱ", "᳐", "᳑", "᳒", "᳔", "᳕", "᳖", "᳗", "᳘", "᳙", "᳚", "᳛",
    "᳜", "᳝", "᳞", "᳟", "᳠", "᳢", "᳣", "᳤", "᳥", "᳦", "᳧", "᳨", "᳭", "᳴", "᳸", "᳹", "ᶛ", "ᶜ",
    "ᶝ", "ᶞ", "ᶟ", "ᶠ", "ᶡ", "ᶢ", "ᶣ", "ᶤ", "ᶥ", "ᶦ", "ᶧ", "ᶨ", "ᶩ", "ᶪ", "ᶫ", "ᶬ", "ᶭ", "ᶮ",
    "ᶯ", "ᶰ", "ᶱ", "ᶲ", "ᶳ", "ᶴ", "ᶵ", "ᶶ", "ᶷ", "ᶸ", "ᶹ", "ᶺ", "ᶻ", "ᶼ", "ᶽ", "ᶾ", "ᶿ", "᷀",
    "᷁", "᷂", "᷃", "᷄", "᷅", "᷆", "᷇", "᷈", "᷉", "᷊", "᷋", "᷌", "᷍", "᷎", "᷏", "᷐", "᷑", "᷒",
    "ᷓ", "ᷔ", "ᷕ", "ᷖ", "ᷗ", "ᷘ", "ᷙ", "ᷚ", "ᷛ", "ᷜ", "ᷝ", "ᷞ", "ᷟ", "ᷠ", "ᷡ", "ᷢ", "ᷣ", "ᷤ",
    "ᷥ", "ᷦ", "ᷧ", "ᷨ", "ᷩ", "ᷪ", "ᷫ", "ᷬ", "ᷭ", "ᷮ", "ᷯ", "ᷰ", "ᷱ", "ᷲ", "ᷳ", "ᷴ", "᷵", "᷶",
    "᷷", "᷸", "᷹", "᷺", "᷻", "᷼", "᷽", "᷾", "᷿", "᾽", "᾿", "῀", "῁", "῍", "῎", "῏", "῝", "῞",
    "῟", "῭", "΅", "`", "´", "῾", "ₐ", "ₑ", "ₒ", "ₓ", "ₔ", "ₕ", "ₖ", "ₗ", "ₘ", "ₙ", "ₚ", "ₛ",
    "ₜ", "⃐", "⃑", "⃒", "⃓", "⃔", "⃕", "⃖", "⃗", "⃘", "⃙", "⃚", "⃛", "⃜", "⃝", "⃞", "⃟", "⃠",
    "⃡", "⃢", "⃣", "⃤", "⃥", "⃦", "⃧", "⃨", "⃩", "⃪", "⃫", "⃬", "⃭", "⃮", "⃯", "⃰", "⳯", "⳰",
    "⳱", "ⷠ", "ⷡ", "ⷢ", "ⷣ", "ⷤ", "ⷥ", "ⷦ", "ⷧ", "ⷨ", "ⷩ", "ⷪ", "ⷫ", "ⷬ", "ⷭ", "ⷮ", "ⷯ", "ⷰ",
    "ⷱ", "ⷲ", "ⷳ", "ⷴ", "ⷵ", "ⷶ", "ⷷ", "ⷸ", "ⷹ", "ⷺ", "ⷻ", "ⷼ", "ⷽ", "ⷾ", "ⷿ", "゙", "゚", "゛",
    "゜", "ゝ", "ゞ", "ー", "ヽ", "ヾ", "ꓸ", "ꓹ", "ꓺ", "ꓻ", "ꓼ", "ꓽ", "ꚜ", "ꚝ", "ꚞ", "ꚟ", "꛰", "꛱",
    "ꞈ", "꞉", "꞊", "꟱", "ꟲ", "ꟳ", "ꟴ", "ꟸ", "ꟹ", "꣄", "ꣅ", "꣠", "꣡", "꣢", "꣣", "꣤", "꣥", "꣦",
    "꣧", "꣨", "꣩", "꣪", "꣫", "꣬", "꣭", "꣮", "꣯", "꣰", "꣱", "ꣿ", "ꦀ", "ꦁ", "ꦂ", "꦳", "ꦶ", "ꦷ",
    "ꦸ", "ꦹ", "ꦼ", "ꦽ", "ꧏ", "ꧥ", "ꧦ", "ꪰ", "ꪲ", "ꪳ", "ꪴ", "ꪷ", "ꪸ", "ꪾ", "꪿", "꫁", "ꫝ", "ꫬ",
    "ꫭ", "ꫳ", "ꫴ", "꫶", "ꯥ", "ꯨ", "꯭", "﮲", "﮳", "﮴", "﮵", "﮶", "﮷", "﮸", "﮹", "﮺", "﮻", "﮼",
    "﮽", "﮾", "﮿", "﯀", "﯁", "﯂", "﻿", "ﾞ", "ﾟ", "￣", "￹", "￺", "￻" }

LowerOf ==
    [ch \in {UpperLetters[k] : k \in DOMAIN UpperLetters} |->
        LowerLetters[CHOOSE k \in DOMAIN UpperLetters : UpperLetters[k] = ch]]

Cased ==
    (DOMAIN LowerOf \cup {LowerLetters[k] : k \in DOMAIN LowerLetters}
        \cup OtherCased \cup {"Σ"}) \ CaseIgnorable

\* the condition Final_Sigma: a cased letter before chars[k] and none after
\* it, case-ignorable characters skipped
FinalSigma(chars, k) ==
    LET before == {i \in 1..(k - 1) : chars[i] \notin CaseIgnorable}
        after == {i \in (k + 1)..Len(chars) : chars[i] \notin CaseIgnorable}
    IN /\ before # {} /\ chars[Greatest(before)] \in Cased
       /\ after = {} \/ chars[Least(after)] \notin Cased

\* the lower case of chars[k]
ToLowerAt(chars, k) ==
    CASE chars[k] = "Σ" -> IF FinalSigma(chars, k) THEN "ς" ELSE "σ"
      [] chars[k] \in DOMAIN LowerOf -> LowerOf[chars[k]]
      [] OTHER -> chars[k]

\* prompt.toLowerCase()
ToLowerCase(chars) == [k \in 1..Len(chars) |-> ToLowerAt(chars, k)]

\* prompt.toLowerCase().includes('(new)')
IsNewPrompt(prompt) == Includes(ToLowerCase(prompt), <<"(", "n", "e", "w", ")">>)

\* let promptType = 'continue'; if (isNewPrompt) promptType = 'new'
PromptType(prompt) == IF IsNewPrompt(prompt) THEN "new" ELSE "continue"

Clip(id, start, end, prompt) ==
    [clipId |-> id, startTime |-> start, endTime |-> end, prompt |-> prompt]

\* clip lists the provider may report for the first scene
ShortSceneClipLists ==
    { <<>>,
      << Clip("c0", <<"0", "s">>, <<"1", "0", ".", "5", "s">>, <<"i", "n", "t", "r", "o">>) >> }

SceneClipLists ==
    { <<>>,
      << Clip("c0", <<"0", "s">>, <<"1", "0", ".", "5", "s">>, <<"i", "n", "t", "r", "o">>) >>,
      << Clip("c0", <<"0", "s">>, <<"7", ".", "0", "0", "0", "0", "0", "0", "0", "0", "1", "s">>, <<"i", "n", "t", "r", "o">>) >> }

\* scenes whose last clip ends where a double no longer resolves 0.000000001
LongSceneClipLists ==
    { << Clip("c0", <<"0", "s">>, <<"8", "3", "8", "8", "6", "0", "8", "s">>, <<"i", "n", "t", "r", "o">>) >>,
      << Clip("c0", <<"0", "s">>, <<"1", "6", "7", "7", "7", "2", "1", "6", "s">>, <<"i", "n", "t", "r", "o">>) >> }

\* operations of a status answer of the provider, for the variant at index idx
MediaOf(idx) == IF idx = 1 THEN "m1" ELSE "m2"
UrlOf(idx) == IF idx = 1 THEN "u1" ELSE "u2"
NoBatchOp == [status |-> "", mediaGenerationId |-> "", fifeUrl |-> "",
              errorMessage |-> NoMessage]
BatchOp(st) == [NoBatchOp EXCEPT !.status = st]
BatchOpsAt(idx) ==
    { BatchOp("MEDIA_GENERATION_STATUS_PENDING"),
      BatchOp("MEDIA_GENERATION_STATUS_ACTIVE"),
      [BatchOp("MEDIA_GENERATION_STATUS_SUCCESSFUL") EXCEPT
          !.mediaGenerationId = MediaOf(idx), !.fifeUrl = UrlOf(idx)],
      [BatchOp("MEDIA_GENERATION_STATUS_SUCCESSFUL") EXCEPT
          !.mediaGenerationId = MediaOf(idx)],
      [BatchOp("MEDIA_GENERATION_STATUS_SUCCESSFUL") EXCEPT !.fifeUrl = UrlOf(idx)],
      [BatchOp("MEDIA_GENERATION_STATUS_FAILED") EXCEPT
          !.errorMessage = HighTrafficMessage],
      [BatchOp("MEDIA_GENERATION_STATUS_FAILED") EXCEPT
          !.errorMessage = UnsafeMessage] }

\* every status answer carrying 0, 1 or 2 operations
AnswerTable ==
    << {<<>>},
       {<<a>> : a \in BatchOpsAt(1)},
       {<<a, b>> : a \in BatchOpsAt(1), b \in BatchOpsAt(2)} >>

\* the answers of a provider whose variants all move together
PlainTable ==
    [k \in 1..3 |->
        {ops \in AnswerTable[k] :
            \A i \in 1..Len(ops) : /\ ops[i].status = ops[1].status
                                   /\ ops[i].errorMessage = NoMessage
                                   /\ (ops[i].mediaGenerationId = "") = (ops[i].fifeUrl = "")}]

Contains(seq, x) == \E k \in 1..Len(seq) : seq[k] = x

NoTally == [successCountPoll |-> 0, activeCount |-> 0, pendingCount |-> 0,
            failedCount |-> 0]

\* else if (op.status === 'MEDIA_GENERATION_STATUS_FAILED') failedCount++
CountsAsFailed(op) == op.status = "MEDIA_GENERATION_STATUS_FAILED"

SelectLatest(selected, op) == op.mediaGenerationId

\* if (!selectedMediaId) selectedMediaId = op.mediaGenerationId
Select(selected, op) == IF selected = Null THEN op.mediaGenerationId ELSE selected

\* statusData.operations.forEach((op, idx) => {...}) from index idx on;
\* acc = [tally, selectedMediaId, videoUrls]
RECURSIVE ForEachOp(_, _, _)
ForEachOp(ops, idx, acc) ==
    IF idx > Len(ops) THEN acc
    ELSE LET op == ops[idx]
             t == acc.tally
         IN IF op.status = "MEDIA_GENERATION_STATUS_SUCCESSFUL"
            THEN ForEachOp(ops, idx + 1,
                    [tally |-> [t EXCEPT !.successCountPoll = @ + 1],
                     selectedMediaId |->
                        IF op.mediaGenerationId # ""
                        THEN Select(acc.selectedMediaId, op) ELSE acc.selectedMediaId,
                     videoUrls |->
                        IF op.mediaGenerationId # "" /\ op.fifeUrl # ""
                           /\ ~Contains(acc.videoUrls, op.fifeUrl)
                        THEN Append(acc.videoUrls, op.fifeUrl) ELSE acc.videoUrls])
            ELSE IF op.status = "MEDIA_GENERATION_STATUS_ACTIVE"
            THEN ForEachOp(ops, idx + 1, [acc EXCEPT !.tally.activeCount = @ + 1])
            ELSE IF op.status = "MEDIA_GENERATION_STATUS_PENDING"
            THEN ForEachOp(ops, idx + 1, [acc EXCEPT !.tally.pendingCount = @ + 1])
            ELSE IF CountsAsFailed(op)
            THEN ForEachOp(ops, idx + 1, [acc EXCEPT !.tally.failedCount = @ + 1])
            ELSE ForEachOp(ops, idx + 1, acc)

CompletedNever(tally, totalVariants) == FALSE

\* completedCount >= totalVariants, completedCount = successCountPoll + failedCount
Completed(tally, totalVariants) ==
    tally.successCountPoll + tally.failedCount >= totalVariants

NoTick == [kind |-> "none", successful |-> 0, failed |-> 0, highTraffic |-> 0]

IdleChain ==
    [pc |-> "idle", prompts |-> <<>>, promptIndex |-> 0,
     sceneId |-> Null, lastClipId |-> Null, initialClips |-> <<>>,
     request |-> [type |-> "", videoInput |-> Null, requests |-> <<>>],
     resultOps |-> <<>>, totalVariants |-> 0,
     pollAttempts |-> 0, pollDone |-> FALSE,
     selectedMediaId |-> Null, videoUrls |-> <<>>,
     file |-> 0, downloadSuccess |-> TRUE,
     updatedClips |-> <<>>, errorPrompts |-> <<>>, successCount |-> 0,
     \* history of the current job
     requestsSent |-> 0, lastTick |-> NoTick,
     firstSuccessful |-> Null, firstWithMedia |-> Null]

\* const lastEndTime = lastClip ? parseFloat(lastClip.endTime.replace('s', '')) : 0
LastEndTime(clips) ==
    IF Len(clips) = 0 THEN Number(0)
    ELSE ParseFloat(RemoveFirstS(clips[Len(clips)].endTime))

\* (lastEndTime + 0.000000001).toFixed(9) + 's'
NewStartTime(lastEndTime) == ToFixed(Plus(lastEndTime, ClipEpsilon), 9) \o <<"s">>

\* (lastEndTime + 7.000000001).toFixed(9) + 's'
NewEndTime(lastEndTime) == ToFixed(Plus(lastEndTime, ClipSpan), 9) \o <<"s">>

UpdatedClipsOnlyNew(clips, mediaId, prompt) ==
    << Clip(mediaId, NewStartTime(LastEndTime(clips)),
            NewEndTime(LastEndTime(clips)), prompt) >>

\* const updatedClips = [...initialClips, newClip]
UpdatedClips(clips, mediaId, prompt) ==
    Append(clips, Clip(mediaId, NewStartTime(LastEndTime(clips)),
                       NewEndTime(LastEndTime(clips)), prompt))

\* the k-th Math.floor(Math.random() * 65536) of a job, as an opaque value
RandomSeed(k) == <<"random", k>>

\* a request without videoInput
NoVideoInput == [mediaId |-> Null, startFrameIndex |-> 0, endFrameIndex |-> 0]

JobRequestsAllExtend(type, prompt, sceneId, lastClipId) ==
    [k \in 1..2 |->
        [prompt |-> prompt, seed |-> RandomSeed(k), sceneId |-> sceneId,
         hasVideoInput |-> TRUE,
         videoInput |-> [mediaId |-> lastClipId,
                         startFrameIndex |-> ExtendStartFrame,
                         endFrameIndex |-> ExtendEndFrame]]]

\* requests = seeds.map(seed => ({...})) on the two seeds, for either type
JobRequests(type, prompt, sceneId, lastClipId) ==
    [k \in 1..2 |->
        [prompt |-> prompt, seed |-> RandomSeed(k), sceneId |-> sceneId,
         hasVideoInput |-> type # "new",
         videoInput |-> IF type = "new" THEN NoVideoInput
                        ELSE [mediaId |-> lastClipId,
                              startFrameIndex |-> ExtendStartFrame,
                              endFrameIndex |-> ExtendEndFrame]]]

\* the top of the prompt loop with promptIndex already set: the loop test,
\* the request construction and axios.post(generateUrl, ...)
LoopTop(ch) ==
    IF ch.promptIndex >= Len(ch.prompts)
    THEN [ch EXCEPT !.pc = "finished"]
    ELSE LET type == PromptType(ch.prompts[ch.promptIndex + 1]) IN
         IF type = "continue" /\ ch.lastClipId \in {Null, Undefined}
         THEN [ch EXCEPT !.pc = "crashed"]      \* lastClipId.substring(0, 50)
         ELSE [ch EXCEPT !.pc = "submitting",
                  !.request = [type |-> type,
                               videoInput |-> IF type = "new" THEN Null
                                              ELSE ch.lastClipId,
                               requests |->
                                   JobRequests(type, ch.prompts[ch.promptIndex + 1],
                                               ch.sceneId, ch.lastClipId)]]

\* `continue`: promptIndex++ and the top of the loop
NextPrompt(ch) == LoopTop([ch EXCEPT !.promptIndex = @ + 1])

Failed(ch, what) ==
    [ch EXCEPT !.errorPrompts = Append(@, [number |-> ch.promptIndex + 2, error |-> what])]

FirstClipIdOf(clips) ==
    IF Len(clips) = 0 THEN Undefined ELSE clips[1].clipId

\* clips[clips.length - 1]?.clipId
LastClipIdOf(clips) ==
    IF Len(clips) = 0 THEN Undefined ELSE clips[Len(clips)].clipId

\* page.on('response'): a searchProjectScenes answer with at least one scene,
\* for a page that sends it while the run is in one of `phases`
SceneLoaded(clipLists, phases) ==
    /\ chain.pc \in phases
    /\ \E clips \in clipLists :
        chain' = [chain EXCEPT
            !.sceneId = "scene-1",
            !.initialClips = clips,
            !.lastClipId = LastClipIdOf(clips)]
    /\ UNCHANGED exceptChain

\* token and scene are there: the prompt loop starts
StartChain(promptLists) ==
    /\ chain.pc = "idle"
    /\ chain.sceneId # Null
    /\ \E ps \in promptLists : chain' = LoopTop([chain EXCEPT !.prompts = ps])
    /\ UNCHANGED exceptChain

\* newClip is built from the clip list as it is now and project.updateScene
\* is posted
PostUpdate(ch) ==
    [ch EXCEPT !.pc = "updating", !.file = 0, !.downloadSuccess = TRUE,
        !.updatedClips = UpdatedClips(ch.initialClips, ch.selectedMediaId,
                                      ch.prompts[ch.promptIndex + 1])]

\* for (let i = 0; i < videoUrls.length && i < 2; i++) with i = ch.file: the
\* next file is requested, or the loop is over (successCount++ when no file
\* failed) and the update follows
DownloadLoop(ch) ==
    IF ch.file < Len(ch.videoUrls) /\ ch.file < 2
    THEN [ch EXCEPT !.pc = "downloading", !.file = @ + 1]
    ELSE PostUpdate([ch EXCEPT !.successCount = IF ch.downloadSuccess THEN @ + 1 ELSE @])

\* if (videoUrls.length > 0) {...}, then the update
AfterPollLoop(ch) ==
    IF Len(ch.videoUrls) > 0 THEN DownloadLoop(ch) ELSE PostUpdate(ch)

\* an error was pushed: await sendTelegram(...), with `continue` to follow
Notify(ch, what) == [Failed(ch, what) EXCEPT !.pc = "notifying"]

PollLoopIgnoresMedia(ch) ==
    IF ch.pollAttempts < maxPoll /\ ~ch.pollDone
    THEN [ch EXCEPT !.pc = "polling", !.pollAttempts = @ + 1, !.requestsSent = @ + 1]
    ELSE IF ~ch.pollDone
    THEN Notify(ch, "Timeout poll video")
    ELSE AfterPollLoop(ch)

PollLoopNoUpdate(ch) ==
    IF ch.pollAttempts < maxPoll /\ ~ch.pollDone
    THEN [ch EXCEPT !.pc = "polling", !.pollAttempts = @ + 1, !.requestsSent = @ + 1]
    ELSE IF ~ch.pollDone \/ ch.selectedMediaId = Null
    THEN Notify(ch, "Timeout poll video")
    ELSE NextPrompt(ch)

\* while (pollAttempts < maxPoll && !pollDone) { pollAttempts++; axios.post(...)
\* and, when the loop is over, if (!pollDone || !selectedMediaId) {...}
PollLoop(ch) ==
    IF ch.pollAttempts < maxPoll /\ ~ch.pollDone
    THEN [ch EXCEPT !.pc = "polling", !.pollAttempts = @ + 1, !.requestsSent = @ + 1]
    ELSE IF ~ch.pollDone \/ ch.selectedMediaId = Null
    THEN Notify(ch, "Timeout poll video")
    ELSE AfterPollLoop(ch)

\* the end of an iteration of the poll loop:
\* if (!pollDone && pollAttempts < maxPoll) await new Promise(r => setTimeout(r, 10000))
EndOfTick(ch) ==
    IF ~ch.pollDone /\ ch.pollAttempts < maxPoll
    THEN [ch EXCEPT !.pc = "sleeping"]
    ELSE PollLoop(ch)

\* the generate request is answered; counts: the numbers of operations the
\* provider may create
SubmitAnswer(counts) ==
    /\ chain.pc = "submitting"
    /\ \/ \E n \in counts :
            chain' = PollLoop([chain EXCEPT
                !.resultOps = [k \in 1..n |-> MediaOf(k)],
                !.totalVariants = n,
                !.pollAttempts = 0, !.pollDone = FALSE,
                !.selectedMediaId = Null, !.videoUrls = <<>>,
                !.requestsSent = 0, !.lastTick = NoTick,
                !.firstSuccessful = Null, !.firstWithMedia = Null])
       \/ chain' = NextPrompt(chain)                   \* no operations array
       \/ chain' = Notify(chain, "Lỗi generate request")
    /\ UNCHANGED exceptChain

\* sendTelegram has settled (it swallows its own errors): `continue`
NotifyDone ==
    /\ chain.pc = "notifying"
    /\ chain' = NextPrompt(chain)
    /\ UNCHANGED exceptChain

HighTrafficCount(ops) ==
    Cardinality({k \in 1..Len(ops) :
        ops[k].status = "MEDIA_GENERATION_STATUS_FAILED"
        /\ IsHighTraffic(ops[k].errorMessage)})

Successes(ops) ==
    {k \in 1..Len(ops) : ops[k].status = "MEDIA_GENERATION_STATUS_SUCCESSFUL"}

Failures(ops) ==
    {k \in 1..Len(ops) : ops[k].status = "MEDIA_GENERATION_STATUS_FAILED"}

MediaSuccesses(ops) == {k \in Successes(ops) : ops[k].mediaGenerationId # ""}

Lowest(S) == CHOOSE k \in S : \A j \in S : k <= j

\* a status request is answered with an operations array: the tally, the
\* selection, the stop test and the rest of the loop
PollTally(ch, ops) ==
    LET acc == ForEachOp(ops, 1, [tally |-> NoTally,
                                  selectedMediaId |-> ch.selectedMediaId,
                                  videoUrls |-> ch.videoUrls])
    IN [ch EXCEPT
          !.selectedMediaId = acc.selectedMediaId,
          !.videoUrls = acc.videoUrls,
          !.pollDone = Completed(acc.tally, ch.totalVariants),
          !.resultOps = [k \in 1..Len(ops) |-> MediaOf(k)],
          !.lastTick = [kind |-> "ops",
                        successful |-> Cardinality(Successes(ops)),
                        failed |-> Cardinality(Failures(ops)),
                        highTraffic |-> HighTrafficCount(ops)],
          !.firstSuccessful =
              IF @ = Null /\ Successes(ops) # {}
              THEN ops[Lowest(Successes(ops))].mediaGenerationId ELSE @,
          !.firstWithMedia =
              IF @ = Null /\ MediaSuccesses(ops) # {}
              THEN ops[Lowest(MediaSuccesses(ops))].mediaGenerationId ELSE @]

\* a status request of the batch poll loop is answered
PollAnswer(answers) ==
    /\ chain.pc = "polling"
    /\ \/ \E ops \in answers[Len(chain.resultOps) + 1] :
            chain' = EndOfTick(PollTally(chain, ops))
       \/ chain' = EndOfTick([chain EXCEPT          \* no operations array
                      !.lastTick = [NoTick EXCEPT !.kind = "noarray"]])
       \/ chain' = EndOfTick([chain EXCEPT          \* axios.post throws: swallowed
                      !.lastTick = [NoTick EXCEPT !.kind = "threw"]])
    /\ UNCHANGED exceptChain

\* the 10 s between two status requests are over
PollSleepOver ==
    /\ chain.pc = "sleeping"
    /\ chain' = PollLoop(chain)
    /\ UNCHANGED exceptChain

\* the file chain.file is fetched and written, or (for the files of `flaky`)
\* the fetch or the write fails: the error is pushed and sendTelegram awaited
Download(flaky) ==
    /\ chain.pc = "downloading"
    /\ \/ chain' = DownloadLoop(chain)
       \/ /\ chain.file \in flaky
          /\ chain' = [Failed(chain, "Lỗi tải") EXCEPT !.pc = "reporting",
                                                        !.downloadSuccess = FALSE]
    /\ UNCHANGED exceptChain

\* sendTelegram has settled after a failed download: the next file
ReportDone ==
    /\ chain.pc = "reporting"
    /\ chain' = DownloadLoop(chain)
    /\ UNCHANGED exceptChain

\* project.updateScene is answered
UpdateAnswer ==
    /\ chain.pc = "updating"
    /\ \/ chain' = [chain EXCEPT !.pc = "pausing",
                        !.initialClips = chain.updatedClips,
                        !.lastClipId = chain.selectedMediaId]
       \/ chain' = Notify(chain, "Lỗi updateScene")
    /\ UNCHANGED exceptChain

\* the 2 s pause is over
Resume ==
    /\ chain.pc = "pausing"
    /\ chain' = NextPrompt(chain)
    /\ UNCHANGED exceptChain

(***************************************************************************)
(* getAccessToken, validateToken, extractCredentials (src/server.js        *)
(* 324-520): the calls in progress, each split at its awaits               *)
(***************************************************************************)
MaxCalls == 2         \* getAccessToken calls made outside the handlers
MaxAges == 2          \* clock advances while the cached tokens age
MaxAgeMs == 3300000        \* 55 * 60 * 1000

\* the token objects and `session` as a call sees them
World ==
    [pool |-> tokenPool, session |-> bearer.session, frames |-> bearer.frames,
     calls |-> bearer.calls]
BearerOf(w) == [session |-> w.session, frames |-> w.frames, calls |-> w.calls]

\* the tokenObj argument: null, a record of the pool, or an object of its own
SessionArg(w) ==
    [kind |-> "session", at |-> 0, own |-> Credential(w.session), record |-> "session"]
PoolArg(w, i) ==
    [kind |-> "pool", at |-> i, own |-> NoCredential, record |-> w.pool[i].name]
OwnArg(tok) == [kind |-> "own", at |-> 0, own |-> Credential(tok), record |-> tok.name]

\* targetToken of call f
Target(w, f) ==
    LET fr == w.frames[f] IN
    CASE fr.kind = "pool" -> Credential(w.pool[fr.at])
      [] fr.kind = "shared" -> w.frames[fr.at].own
      [] OTHER -> fr.own

\* targetToken.accessToken = ..., targetToken.lastUpdate = ...
Assign(w, f, rec) ==
    LET fr == w.frames[f] IN
    CASE fr.kind = "pool" ->
            [w EXCEPT !.pool[fr.at].accessToken = rec.accessToken,
                      !.pool[fr.at].lastUpdate = rec.lastUpdate]
      [] fr.kind = "shared" -> [w EXCEPT !.frames[fr.at].own = rec]
      [] OTHER -> [w EXCEPT !.frames[f].own = rec]

\* !forceRefresh && targetToken.accessToken && targetToken.lastUpdate
\*   && tokenAge < maxAge
FreshInclusive(rec, force, t) ==
    /\ ~force /\ rec.accessToken # NoAccess /\ rec.lastUpdate # Absent
    /\ t - rec.lastUpdate <= MaxAgeMs
Fresh(rec, force, t) ==
    /\ ~force /\ rec.accessToken # NoAccess /\ rec.lastUpdate # Absent
    /\ t - rec.lastUpdate < MaxAgeMs

\* call f ends: it returns or throws, and lets go of its targetToken (an object
\* other calls share goes to the first of them)
Settle(w, f, returned, thrown, status) ==
    LET fr == w.frames[f]
        sharers == {g \in Frames : w.frames[g].kind = "shared" /\ w.frames[g].at = f}
        ended == [fr EXCEPT !.pc = "done", !.after = Target(w, f),
                            !.returned = returned, !.thrown = thrown, !.status = status,
                            !.kind = "none", !.at = 0, !.own = NoCredential]
    IN [w EXCEPT !.frames = [g \in Frames |->
            IF g = f THEN ended
            ELSE IF fr.kind = "own" /\ g \in sharers
            THEN IF g = Least(sharers)
                 THEN [w.frames[g] EXCEPT !.kind = "own", !.at = 0, !.own = fr.own]
                 ELSE [w.frames[g] EXCEPT !.at = Least(sharers)]
            ELSE w.frames[g]]]

\* the catch block: an error with response.status `status` (0: none) is thrown
\* on; a 401 clears the bearer token first
Catch(w, f, status) ==
    LET cleared == Assign(w, f, [Target(w, f) EXCEPT !.accessToken = NoAccess])
        w1 == IF status # 401 THEN w
              ELSE IF w.frames[f].kind = "session"
              THEN [cleared EXCEPT !.session.accessToken = NoAccess]
              ELSE cleared
    IN Settle(w1, f, NoAccess, TRUE, status)

\* the try block up to its first await: a tokenObj without cookies or session
\* token throws, the global session has them extracted from Chrome first, from
\* session.page or, without one, through the remote debugging port
BeginRefresh(w, f) ==
    LET rec == Target(w, f) IN
    IF ~Falsy(rec.cookies) /\ ~Falsy(rec.sessionToken)
    THEN [w EXCEPT !.frames[f].pc = "fetching"]
    ELSE IF w.frames[f].kind # "session"
    THEN Catch(w, f, 0)
    ELSE IF w.session.page
    THEN [w EXCEPT !.frames[f].pc = "extracting"]   \* await session.page.cookies()
    ELSE [w EXCEPT !.frames[f].pc = "version"]      \* await axios.get(.../json/version)

\* getAccessToken(forceRefresh, tokenObj) up to its first await, at time t
StartCall(w, f, arg, force, t) ==
    LET w0 == [w EXCEPT !.calls = @ + 1,
                        !.frames[f] = [IdleFrame EXCEPT !.pc = "started",
                            !.kind = arg.kind, !.at = arg.at, !.own = arg.own,
                            !.record = arg.record, !.forceRefresh = force,
                            !.n = w.calls + 1]]
        rec == Target(w0, f)
        w1 == [w0 EXCEPT !.frames[f].before = rec,
                         !.frames[f].age = IF rec.lastUpdate = Absent THEN 0
                                           ELSE t - rec.lastUpdate]
    IN IF Fresh(rec, force, t)
       THEN [w1 EXCEPT !.frames[f].pc = "validating"]
       ELSE BeginRefresh(w1, f)

\* validateToken answered: return targetToken.accessToken, or go on to refresh
Validated(w, f, isValid) ==
    LET seen == [w EXCEPT !.frames[f].validations = Append(@, isValid)] IN
    IF isValid
    THEN Settle(seen, f, Target(seen, f).accessToken, FALSE, 0)
    ELSE BeginRefresh(seen, f)

\* what page.cookies() gives: the cookies with the session token among them,
\* cookies without it, or none
PageOutcomes == {"both", "cookiesOnly", "none"}
\* await page.cookies(): the same, or it rejects
ExtractOutcomes == PageOutcomes \cup {"throws"}
\* what the request to localhost:9222/json/version settles with: the endpoint
\* of the debugger, an error response of status 401 or 500, or no response
DebuggerAnswers == {"endpoint", "401", "500", "refused"}
\* what browser.pages() settles with: a labs.google page among the pages,
\* none among them, or it rejects
PagesAnswers == {"whisk", "other", "throws"}

\* extractCredentials throws in call f: the catch block of getAccessToken
ExtractThrows(w, f, status) ==
    Catch([w EXCEPT !.frames[f].extracts = Append(@, "throws")], f, status)

\* axios.get('http://localhost:9222/json/version') has settled
Versioned(w, f, answer) ==
    CASE answer = "endpoint" -> [w EXCEPT !.frames[f].pc = "connecting"]
      [] answer = "401" -> ExtractThrows(w, f, 401)
      [] answer = "500" -> ExtractThrows(w, f, 500)
      [] OTHER -> ExtractThrows(w, f, 0)

\* puppeteer.connect({ browserWSEndpoint }) has settled
Connected(w, f, ok) ==
    IF ok THEN [w EXCEPT !.frames[f].pc = "listing"] ELSE ExtractThrows(w, f, 0)

\* browser.pages() has settled: session.page = page and await page.cookies(),
\* or 'Whisk page not found!'
Listed(w, f, answer) ==
    IF answer = "whisk"
    THEN [w EXCEPT !.session.page = TRUE, !.frames[f].pc = "extracting"]
    ELSE ExtractThrows(w, f, 0)

\* if (sessionCookie) session.sessionToken = ...; session.cookies = cookieString
PageCookies(session, outcome) ==
    [session EXCEPT
        !.cookies = CASE outcome = "both" -> "c=page; st=page"
                      [] outcome = "cookiesOnly" -> "a=1"
                      [] OTHER -> "",
        !.sessionToken = IF outcome = "both" THEN "st-page" ELSE @]

\* page.cookies() settled and with it extractCredentials(); then
\* targetToken.cookies.substring(0, 100) of the copy made when the call began,
\* and the session request
Extracted(w, f, outcome) ==
    LET seen == [w EXCEPT !.frames[f].extracts = Append(@, outcome)]
        stored == [seen EXCEPT !.session = PageCookies(@, outcome)]
    IN IF outcome = "throws" THEN ExtractThrows(w, f, 0)
       ELSE IF Target(stored, f).cookies \in {Null, Undefined}
       THEN Catch(stored, f, 0)        \* TypeError
       ELSE [stored EXCEPT !.frames[f].pc = "fetching"]

\* the session endpoint answers: an access token, a body without one, or an
\* error status
SessionAnswers == {"access_token", "empty", "401", "500"}

SessionAnswered(w, f, answer, t) ==
    LET fr == w.frames[f]
        seen == [w EXCEPT !.frames[f].fetches = Append(@, answer),
                          !.frames[f].fetchedAt = t]
        stored == Assign(seen, f, [Target(seen, f) EXCEPT
                                      !.accessToken = AccessToken(fr.n),
                                      !.lastUpdate = t])
        synced == IF fr.kind = "session"
                  THEN [stored EXCEPT !.session.accessToken = AccessToken(fr.n),
                                      !.session.lastUpdate = t]
                  ELSE stored
    IN CASE answer = "access_token" -> Settle(synced, f, AccessToken(fr.n), FALSE, 0)
         [] answer = "401" -> Catch(seen, f, 401)
         [] answer = "500" -> Catch(seen, f, 500)
         [] OTHER -> Catch(seen, f, 0)      \* 'No access token in response'

(***************************************************************************)
(* Endpoint handlers of the server (src/server.js 2997-3045, 3210-3777):   *)
(* the video submissions, the status check, the scene update, the project  *)
(* fetch and the batch log, each split at its awaits                       *)
(***************************************************************************)
\* submissions guarded by isDuplicateRequest / routed through a lane / sent
\* with the ambient session
DedupEndpoints == {"generate-start-end"}
LaneEndpoints == {"generate-text", "check-status"}
SessionEndpoints == {"generate-start-image", "extend-video", "generate-reference-video"}
SubmitEndpoints == DedupEndpoints \cup {"generate-text"} \cup SessionEndpoints
\* the scene update and the project fetch: ambient session, plain axios.post
ProjectEndpoints == {"update-scene", "get-project"}
\* the batch log: ambient session, plain axios.post, no look at the answer
LogEndpoints == {"submit-batch-log"}
\* endpoints whose catch block looks at err.response?.status === 401
ExpiryEndpoints == {"check-status", "get-project"}
Endpoints == SubmitEndpoints \cup {"check-status"}

\* endpoints whose provider request goes through axiosWithRetry
RetryEndpoints == DedupEndpoints \cup LaneEndpoints
\* endpoints that answer success to any 200 of the provider
UnreadEndpoints == {"update-scene"} \cup LogEndpoints

\* scene ids: the ones a request names and the ones crypto.randomUUID() makes
GivenSceneId(n) == <<"given", n>>
UUID(n) == <<"uuid", n>>

\* the fields of a request body the handlers read; NoBody is the body {}
NoBody ==
    [hasSeeds |-> FALSE, seeds |-> <<>>, startImageMediaId |-> "",
     endImageMediaId |-> "", sceneId |-> GivenSceneId(0), prompt |-> Undefined,
     \* the provider-format fields
     hasClientContext |-> FALSE, hasRequests |-> FALSE, requestCount |-> 0,
     \* update-scene, get-project
     hasClips |-> FALSE, projectId |-> "",
     \* the fields of extendFlow
     previousMediaGenerationId |-> "", additionalDurationSec |-> 0]

\* a body every endpoint accepts
PlainBody ==
    [NoBody EXCEPT !.hasSeeds = TRUE, !.seeds = <<1>>, !.prompt = "p",
                   !.hasClientContext = TRUE, !.hasRequests = TRUE,
                   !.requestCount = 1, !.hasClips = TRUE, !.projectId = "proj"]

\* token = tokenObj.authorization.replace(/^Bearer\s+/i, '').trim()
Trim(chars) ==
    LET kept == {k \in 1..Len(chars) : chars[k] \notin WhiteSpace} IN
    IF kept = {} THEN <<>> ELSE SubSeq(chars, Least(kept), Greatest(kept))

SavedBearer(authorization) ==
    IF /\ StartsWith([k \in 1..Len(authorization) |-> Canonicalize(authorization[k])],
                     1, <<"B", "E", "A", "R", "E", "R">>)
       /\ CharAt(authorization, 7) \in WhiteSpace
    THEN Trim(SubSeq(authorization, SkipWhiteSpace(authorization, 7),
                     Len(authorization)))
    ELSE Trim(authorization)

\* !clientContext || !requests || !requests.length
MissingBatch(body) ==
    ~body.hasClientContext \/ ~body.hasRequests \/ body.requestCount = 0

IdleHandler ==
    [pc |-> "idle", endpoint |-> "", tokenName |-> "", hash |-> "", at |-> 0,
     lane |-> NoToken, inPool |-> FALSE, result |-> "",
     status |-> 0, tokenExpired |-> FALSE, body |-> NoBody,
     token |-> NoAccess,    \* the bearer token of the provider request
     logs |-> 0,            \* the log posts answered so far
     retryCount |-> 0,      \* of axiosWithRetry, while the request is out
     waitMs |-> Number(0),  \* the timer of axiosWithRetry
     operations |-> <<>>]   \* the operations of res.json({ success: true, ... })

IdleServer ==
    [reqs |-> [r \in Reqs |-> IdleHandler],
     arrivals |-> 0,        \* requests received so far
     arrived |-> <<>>,      \* history: the requests received and the dedup verdicts
     sent |-> <<>>,         \* history: the requests sent to the provider
     storeReads |-> 0,      \* history: readTokensFromFile() calls by handlers
     authCalls |-> 0,       \* history: getAccessToken() calls by handlers
     uuids |-> 0]           \* crypto.randomUUID() results handed out so far

InPoolNever(name) == FALSE

\* tokenPool.find(t => t.name === tokenName) finds a record
InPool(name) == name # "" /\ FindIndex(tokenPool, name, 1) # 0

\* no handler is running in slot r (none yet, or its response was written and
\* taken)
Free(r) == srv.reqs[r].pc \in {"idle", "done"} /\ job.handler # r

Arrival(e, name, h, verdict) ==
    [endpoint |-> e, tokenName |-> name, hash |-> h, at |-> now, verdict |-> verdict]

\* Math.floor(Math.random() * 65536): the extremes
RandomSeeds == {0, 65535}

\* the random numbers handler h may draw
SeedChoices(h) ==
    IF h.endpoint = "generate-start-end" /\ ~h.body.hasSeeds THEN RandomSeeds ELSE {0}

\* seeds || [Math.floor(Math.random() * 65536)]
SeedsArray(body, random) == IF body.hasSeeds THEN body.seeds ELSE <<random>>

VariantSceneIdShared(sceneId, n) == sceneId

\* const uniqueSceneId = crypto.randomUUID(), the n-th one handed out
VariantSceneId(sceneId, n) == UUID(n)

\* requestPayload.requests of generate-start-end: seedsArray.map(seed => ...)
StartEndRequests(body, random, made) ==
    [k \in 1..Len(SeedsArray(body, random)) |->
        [seed |-> SeedsArray(body, random)[k],
         startImage |-> body.startImageMediaId,
         endImage |-> body.endImageMediaId,
         sceneId |-> VariantSceneId(body.sceneId, made + k)]]

ProviderRequest(h) ==
    [endpoint |-> h.endpoint, tokenName |-> h.tokenName, hash |-> h.hash, at |-> h.at,
     lane |-> h.lane, inPool |-> h.inPool, body |-> h.body, requests |-> <<>>,
     token |-> NoAccess]

\* res.json({ success: false, error }) without a provider request
Answer(s, r, result) == [s EXCEPT !.reqs[r].pc = "done", !.reqs[r].result = result]

\* the handler builds its payload and sends it with `token`, through
\* axiosWithRetry or axios.post; generate-start-end reads requests[0] first
Send(s, r, token, random) ==
    LET h == s.reqs[r]
        batch == IF h.endpoint = "generate-start-end"
                 THEN StartEndRequests(h.body, random, s.uuids)
                 ELSE <<>>
    IN IF h.endpoint = "generate-start-end" /\ batch = <<>>
       THEN Answer(s, r, "typeError")
       ELSE [s EXCEPT !.reqs[r].pc = "sending", !.reqs[r].token = token,
                      !.sent = Append(@, [ProviderRequest(h) EXCEPT
                                             !.requests = batch, !.token = token]),
                      !.uuids = @ + Len(batch)]

\* the catch block of endpoint e answers tokenExpired: true, statusCode: 401
Expiry(e, status) == e \in ExpiryEndpoints /\ status = 401

\* `await getAccessToken(...)` of handler r has settled as the ended call fr
\* tells: the catch block, the log posts, or the provider request
AuthDone(s, r, fr, random) ==
    IF fr.thrown
    THEN [Answer(s, r, "authError") EXCEPT
             !.reqs[r].status = fr.status,
             !.reqs[r].tokenExpired = Expiry(s.reqs[r].endpoint, fr.status)]
    ELSE IF s.reqs[r].endpoint \in SessionEndpoints
    THEN [s EXCEPT !.reqs[r].pc = "logging", !.reqs[r].token = fr.returned]
    ELSE Send(s, r, fr.returned, random)

Outcome(s, w) == [s |-> s, w |-> w]

\* token = await getAccessToken(force, tokenObj) in handler r
Await(s, w, r, arg, force, random) ==
    LET s1 == [s EXCEPT !.reqs[r].pc = "auth", !.authCalls = @ + 1]
        w1 == StartCall(w, r, arg, force, now)
    IN Outcome(IF w1.frames[r].pc = "done"
               THEN AuthDone(s1, r, w1.frames[r], random) ELSE s1,
               w1)

\* generate-start-end once it has its tokenObj `tok`: prompt.substring, then
\* the saved authorization or a forced refresh
StartEnd(s, w, r, arg, tok, random) ==
    IF s.reqs[r].body.prompt = Undefined
    THEN Outcome(Answer(s, r, "typeError"), w)
    ELSE IF tok.authorization # NoAuthorization
    THEN Outcome(Send(s, r, SavedBearer(tok.authorization), random), w)
    ELSE Await(s, w, r, arg, TRUE, random)

\* axiosWithRetry: rateLimitStats.totalRequests++ for the request just sent
Count(s, next, e) ==
    IF Len(next.sent) > Len(s.sent) /\ e \in RetryEndpoints
    THEN [rateLimitStats EXCEPT !.totalRequests = @ + 1]
    ELSE rateLimitStats

\* a request with the body fields `body` reaches an endpoint: the handler up
\* to its first await, or to its answer
Receive(r, e, name, h, body) ==
    /\ Free(r)
    /\ \A q \in Reqs : q < r => ~Free(q)          \* the first free slot
    /\ srv.arrivals < MaxArrivals
    /\ LET started == [IdleHandler EXCEPT !.pc = "started", !.endpoint = e,
                          !.tokenName = name, !.hash = h, !.at = now, !.body = body]
           Log(verdict) == [srv EXCEPT !.arrivals = @ + 1,
                               !.arrived = Append(@, Arrival(e, name, h, verdict)),
                               !.reqs[r] = started]
           dup == IsDuplicate(recentRequests, h, now)
           next == NextTokenResult(tokenPool, currentTokenIndex)
           nextArg == IF Len(tokenPool) = 0 THEN OwnArg(next)
                      ELSE PoolArg(World, currentTokenIndex + 1)
           named == FindIndex(tokenPool, name, 1)
       IN
       \E random \in SeedChoices(started) :
       LET out ==
           CASE e \in DedupEndpoints ->
                  IF dup
                  THEN \* 'Duplicate request detected...'
                       Outcome(Answer(Log("duplicate"), r, "duplicate"), World)
                  ELSE IF name # ""
                  THEN \* await readTokensFromFile()
                       Outcome([Log("passed") EXCEPT !.reqs[r].pc = "reading",
                                                     !.storeReads = @ + 1], World)
                  ELSE \* tokenObj = getNextToken()
                       StartEnd([Log("passed") EXCEPT !.reqs[r].lane = next],
                                World, r, nextArg, next, random)
             [] e \in LaneEndpoints ->
                  \* tokenName ? getTokenByName(tokenName) : getNextToken()
                  LET s1 == [Log("unchecked") EXCEPT
                                !.reqs[r].inPool = InPool(name),
                                !.reqs[r].lane = IF InPool(name) THEN tokenPool[named]
                                                 ELSE next]
                  IN IF e = "generate-text" /\ ~body.hasRequests
                     THEN Outcome(Answer(s1, r, "typeError"), World)  \* requests.length
                     ELSE Await(s1, World, r,
                                IF InPool(name) THEN PoolArg(World, named) ELSE nextArg,
                                FALSE, random)
             [] e \in SessionEndpoints /\ MissingBatch(body) ->
                  \* 'Missing clientContext or requests'
                  Outcome(Answer(Log("unchecked"), r, "missingBatch"), World)
             [] e = "update-scene" /\ ~body.hasClips ->
                  Outcome(Answer(Log("unchecked"), r, "typeError"), World) \* clips.length
             [] e = "get-project" /\ Falsy(body.projectId) ->
                  \* 'No projectId provided'
                  Outcome(Answer(Log("unchecked"), r, "noProjectId"), World)
             [] OTHER ->
                  \* await getAccessToken(): the ambient session, no lane
                  Await(Log("unchecked"), World, r, SessionArg(World), FALSE, random)
       IN /\ srv' = out.s
          /\ bearer' = BearerOf(out.w)
          /\ rateLimitStats' = Count(srv, out.s, e)
          /\ IF e \in DedupEndpoints THEN CheckDuplicate(h) ELSE UNCHANGED dedupVars
          /\ IF e \in DedupEndpoints /\ ~dup /\ name = "" THEN TakeNextToken
             ELSE IF e \in LaneEndpoints THEN LookupByName(name)
             ELSE UNCHANGED poolVars
    /\ UNCHANGED <<rq, gv, chain>>

\* a request that does not come from the modelled clients
ArriveWith(r, e, name, h, body) ==
    Receive(r, e, name, h, body) /\ UNCHANGED <<pj, poll, job>>

Arrive(r, e, name, h) == ArriveWith(r, e, name, h, PlainBody)

\* generate-start-end: readTokensFromFile() has settled
StoreRead(r) ==
    /\ srv.reqs[r].pc = "reading"
    /\ \E readOk \in BOOLEAN, random \in SeedChoices(srv.reqs[r]) :
       LET i == FindIndex(Store, srv.reqs[r].tokenName, 1)
           out == IF ~readOk THEN Outcome(Answer(srv, r, "readError"), World)
                  ELSE IF i = 0     \* Lane "..." not found in tokens.xlsx
                  THEN Outcome(Answer(srv, r, "laneNotFound"), World)
                  ELSE StartEnd([srv EXCEPT !.reqs[r].lane = Token(Store[i])], World,
                                r, OwnArg(Token(Store[i])), Token(Store[i]), random)
       IN /\ srv' = out.s
          /\ bearer' = BearerOf(out.w)
          /\ rateLimitStats' = Count(srv, out.s, srv.reqs[r].endpoint)
    /\ UNCHANGED <<poolVars, dedupVars, rq, pj, poll, job, gv, chain>>

\* call f of getAccessToken takes a step to w; the handler that awaits it goes
\* on when the call has ended
Proceed(f, w) ==
    /\ tokenPool' = w.pool
    /\ bearer' = BearerOf(w)
    /\ IF f \in Reqs /\ w.frames[f].pc = "done"
       THEN \E random \in SeedChoices(srv.reqs[f]) :
               LET next == AuthDone(srv, f, w.frames[f], random) IN
               /\ srv' = next
               /\ rateLimitStats' = Count(srv, next, srv.reqs[f].endpoint)
       ELSE UNCHANGED <<srv, rateLimitStats>>
    /\ UNCHANGED exceptCredentials

\* validateToken answers call f
ValidateAnswer(f, valids) ==
    /\ bearer.frames[f].pc = "validating"
    /\ \E isValid \in valids : Proceed(f, Validated(World, f, isValid))

\* extractCredentials without session.page: the request to the debugging
\* port of Chrome settles for call f
VersionAnswer(f, answers) ==
    /\ bearer.frames[f].pc = "version"
    /\ \E answer \in answers : Proceed(f, Versioned(World, f, answer))

\* puppeteer.connect settles for call f
ConnectAnswer(f, oks) ==
    /\ bearer.frames[f].pc = "connecting"
    /\ \E ok \in oks : Proceed(f, Connected(World, f, ok))

\* browser.pages() settles for call f
PagesAnswer(f, answers) ==
    /\ bearer.frames[f].pc = "listing"
    /\ \E answer \in answers : Proceed(f, Listed(World, f, answer))

\* page.cookies() settles for call f, and with it extractCredentials
ExtractAnswer(f, outcomes) ==
    /\ bearer.frames[f].pc = "extracting"
    /\ \E outcome \in outcomes : Proceed(f, Extracted(World, f, outcome))

\* the session endpoint answers call f
SessionAnswer(f, answers) ==
    /\ bearer.frames[f].pc = "fetching"
    /\ \E answer \in answers : Proceed(f, SessionAnswered(World, f, answer, now))

\* one of the three log posts of a start-image, extend or reference handler
\* has settled (submitBatchLog and submitVideoTimerLog swallow their errors);
\* after the third the provider request is sent
LogPosts == 3
LogDone(r) ==
    /\ srv.reqs[r].pc = "logging"
    /\ srv' = IF srv.reqs[r].logs + 1 < LogPosts
              THEN [srv EXCEPT !.reqs[r].logs = @ + 1]
              ELSE Send([srv EXCEPT !.reqs[r].logs = @ + 1], r, srv.reqs[r].token, 0)
    /\ UNCHANGED <<poolVars, dedupVars, retryVars, clientVars, chain>>

\* what the provider's 200 carries: response.data with its operations (or
\* the project data), or without
ProviderBody(ops) == [hasOperations |-> TRUE, operations |-> ops]
EmptyBody == [hasOperations |-> FALSE, operations |-> <<>>]
FullBody == ProviderBody(<<OpPending>>)
AnswerBodies == {FullBody, EmptyBody}

\* operations.map(op => ({ operation: { name: op.operation.name },
\*                          sceneId: op.sceneId, status: op.status }))
SubmittedOp(op) == [NoOp EXCEPT !.status = op.status]

\* parsedOps of check-status: operation, status, sceneId, and the video of a
\* successful operation
ParsedOp(op) ==
    [op EXCEPT !.mediaId = IF IsSuccessfulStatus(op.status) THEN @ ELSE ""]

\* the operations of res.json({ success: true, ... }) of endpoint e
AnsweredOps(e, ops) ==
    IF e \in SubmitEndpoints THEN [k \in 1..Len(ops) |-> SubmittedOp(ops[k])]
    ELSE IF e = "check-status" THEN [k \in 1..Len(ops) |-> ParsedOp(ops[k])]
    ELSE <<>>

\* the handler's provider request settles with `status` (a 429 only where
\* the request is made with axios.post): res.json({ success: true, ... }) or
\* the catch block
ProviderAnswerWith(r, statuses, bodies) ==
    /\ srv.reqs[r].pc = "sending"
    /\ \E status \in statuses, body \in bodies :
        LET h == srv.reqs[r]
            read == body.hasOperations \/ h.endpoint \in UnreadEndpoints
        IN /\ status = 429 => h.endpoint \notin RetryEndpoints
           /\ srv' = [srv EXCEPT !.reqs[r] =
                [h EXCEPT !.pc = "done", !.status = status,
                    !.result =
                        IF status # 200 THEN "providerError"
                        ELSE IF read THEN "ok"
                        ELSE "badAnswer",   \* operations.map / 'No project data'
                    !.operations =
                        IF status = 200 /\ read
                        THEN AnsweredOps(h.endpoint, body.operations) ELSE <<>>,
                    !.tokenExpired = Expiry(h.endpoint, status)]]
    /\ UNCHANGED <<poolVars, dedupVars, retryVars, clientVars, chain>>

ProviderAnswer(r) == ProviderAnswerWith(r, {200, 500}, AnswerBodies)

\* axiosWithRetry(config, 0, 5, laneName, proxy) of the handlers
HandlerMaxRetries == 5
\* 429 answers to the handlers' requests in one run
MaxRateLimits == 6

\* const laneName = tokenObj.name || 'default'
LaneName(lane) == IF Falsy(lane.name) THEN "default" ELSE lane.name

\* axios rejects the request of an axiosWithRetry handler with a 429 carrying
\* one of `headers`: the catch branch, up to the timer or to the handler's
\* catch block ('API rate limit exceeded after 5 retries')
RateLimitedWith(r, headers) ==
    /\ srv.reqs[r].pc = "sending"
    /\ srv.reqs[r].endpoint \in RetryEndpoints
    /\ rateLimitStats.retriedRequests < MaxRateLimits
    /\ \E header \in headers :
        LET h == srv.reqs[r]
            counted == Counted(rateLimitStats, LaneName(h.lane), h.retryCount, now)
        IN IF CanRetry(h.retryCount, HandlerMaxRetries)
           THEN /\ srv' = [srv EXCEPT !.reqs[r].pc = "backoff",
                               !.reqs[r].waitMs = WaitMs(h.retryCount, header)]
                /\ rateLimitStats' = counted
           ELSE /\ srv' = [srv EXCEPT !.reqs[r].pc = "done",
                               !.reqs[r].result = "rateLimitExceeded"]
                /\ rateLimitStats' = [counted EXCEPT !.failedAfterRetry = @ + 1]
    /\ UNCHANGED <<poolVars, dedupVars, rq, clientVars, chain>>

\* the timer fires: axiosWithRetry(config, retryCount + 1, ...) sends the
\* request again
BackoffOver(r) ==
    /\ srv.reqs[r].pc = "backoff"
    /\ srv' = [srv EXCEPT !.reqs[r].pc = "sending", !.reqs[r].retryCount = @ + 1,
                          !.reqs[r].waitMs = Number(0)]
    /\ UNCHANGED <<poolVars, dedupVars, retryVars, clientVars, chain>>

\* the environment of a handler: any outcome of each of its awaits
AuthStep(f) ==
    \/ ValidateAnswer(f, BOOLEAN)
    \/ VersionAnswer(f, DebuggerAnswers)
    \/ ConnectAnswer(f, BOOLEAN)
    \/ PagesAnswer(f, PagesAnswers)
    \/ ExtractAnswer(f, ExtractOutcomes)
    \/ SessionAnswer(f, SessionAnswers)

HandlerStep(r) ==
    \/ StoreRead(r) \/ AuthStep(r) \/ LogDone(r) \/ ProviderAnswer(r)
    \/ RateLimitedWith(r, RetryAfterHeaders) \/ BackoffOver(r)

\* getAccessToken(forceRefresh, tokenObj) called outside the handlers, for the
\* global session or a record of the pool
GetAccessTokenFor(targets, forces) ==
    /\ bearer.frames[0].pc \in {"idle", "done"}
    /\ bearer.calls < MaxCalls
    /\ \E k \in targets, force \in forces :
          /\ k = "session" \/ InPool(k)
          /\ Proceed(0, StartCall(World, 0,
                                 IF k = "session" THEN SessionArg(World)
                                 ELSE PoolArg(World, FindIndex(tokenPool, k, 1)),
                                 force, now))

\* tokens.txt as POST /api/load-credentials parses it: "D" has no session token
SavedTokens ==
    << [name |-> "A", cookies |-> "c=A", sessionToken |-> "st-A"],
       [name |-> "D", cookies |-> "c=D", sessionToken |-> Undefined] >>

\* POST /api/load-credentials for a name of tokens.txt: session.cookies and
\* session.sessionToken are stored, then await getAccessToken()
LoadCredentials(names) ==
    /\ bearer.frames[0].pc \in {"idle", "done"}
    /\ bearer.calls < MaxCalls
    /\ \E name \in names :
          LET i == FindIndex(SavedTokens, name, 1)
              w == [World EXCEPT !.session.cookies = SavedTokens[i].cookies,
                                 !.session.sessionToken = SavedTokens[i].sessionToken]
          IN /\ i # 0
             /\ Proceed(0, StartCall(w, 0, SessionArg(w), FALSE, now))

\* captureToken(): the cookies of session.page are stored, then
\* await getAccessToken(false, null)
CaptureToken(pages) ==
    /\ bearer.frames[0].pc \in {"idle", "done"}
    /\ bearer.calls < MaxCalls
    /\ bearer.session.page
    /\ \E outcome \in pages :
          LET w == [World EXCEPT !.session = PageCookies(@, outcome)]
          IN Proceed(0, StartCall(w, 0, SessionArg(w), FALSE, now))

\* launchChrome(): the new profile's cookies and session token (null unless the
\* session cookie is there) are stored, then await getAccessToken(false, null)
LaunchChrome(pages) ==
    /\ bearer.frames[0].pc \in {"idle", "done"}
    /\ bearer.calls < MaxCalls
    /\ \E outcome \in pages :
          LET w == [World EXCEPT !.session.page = TRUE,
                       !.session.cookies =
                           IF outcome = "both" THEN "c=page; st=page" ELSE Null,
                       !.session.sessionToken =
                           IF outcome = "both" THEN "st-page" ELSE Null]
          IN Proceed(0, StartCall(w, 0, SessionArg(w), FALSE, now))

(***************************************************************************)
(* startJob and extendFlow (src/mẫu/video.js 34-100, src/unnamed/part_001  *)
(* 340-344)                                                                *)
(***************************************************************************)
\* startJob: the argument durationSec when the caller names none
DefaultDurationSec == 8
NoDuration == 0

\* !startImageMediaId && !endImageMediaId && !startImageFile && !endImageFile
\*   && !(imageFiles?.length)
NoAnchorsProvided(args) ==
    /\ Falsy(args.startImageMediaId) /\ Falsy(args.endImageMediaId)
    /\ ~args.startImageFile /\ ~args.endImageFile
    /\ args.imageFiles = 0

\* startJob's choice of flow: extension first, then text-only, then anchors
JobFlow(args) ==
    IF ~Falsy(args.previousMediaGenerationId) THEN "extend"
    ELSE IF args.textToVideo \/ NoAnchorsProvided(args) THEN "textToVideo"
    ELSE "startEnd"

\* extendFlow -> api.extendVideo: the body posted to /api/veo3/extend-video,
\* which has neither clientContext nor requests
ExtendPayload(args) ==
    [NoBody EXCEPT
        !.previousMediaGenerationId = args.previousMediaGenerationId,
        !.prompt = args.prompt,
        !.additionalDurationSec = IF args.durationSec = NoDuration
                                  THEN DefaultDurationSec ELSE args.durationSec]

NoArgs ==
    [previousMediaGenerationId |-> "", prompt |-> "", textToVideo |-> FALSE,
     startImageMediaId |-> "", endImageMediaId |-> "", startImageFile |-> FALSE,
     endImageFile |-> FALSE, imageFiles |-> 0, durationSec |-> NoDuration]

IdleJob ==
    [pc |-> "idle", args |-> NoArgs,
     handler |-> 0,         \* the handler that has the request in flight
     posted |-> <<>>,       \* history: the endpoints the posts were made to
     json |-> NoJson]       \* what extendFlow returned

exceptJob == <<poolVars, dedupVars, retryVars, chain, srv, poll, apiVars>>

\* startJob(args) with a previous media id: extendFlow, up to the fetch of
\* api.submitBatchLog
StartJobFrom(argSet) ==
    /\ job.pc \in {"idle", "returned", "thrown"}
    /\ pj.pc = "idle"
    /\ poll.pc = "idle"
    /\ \E args \in argSet :
        /\ JobFlow(args) = "extend"
        /\ job' = [IdleJob EXCEPT !.pc = "logging", !.args = args,
                                  !.posted = <<"submit-batch-log">>]
    /\ pj' = StartedPost("extendFlow")
    /\ UNCHANGED exceptJob

\* the url and body of the post extendFlow is waiting for
JobEndpoint == IF job.pc = "logging" THEN "submit-batch-log" ELSE "extend-video"
JobBody == IF job.pc = "logging" THEN NoBody ELSE ExtendPayload(job.args)

\* the fetch of extendFlow's post reaches the server
JobArrives(r) ==
    /\ pj.pc = "fetching"
    /\ pj.caller = "extendFlow"
    /\ job.handler = 0
    /\ Receive(r, JobEndpoint, "", "", JobBody)
    /\ job' = [job EXCEPT !.handler = r]
    /\ UNCHANGED <<pj, poll>>

\* res.json(...) of a handler as the client reads it
JsonOf(h) ==
    [success |-> h.result = "ok", tokenExpired |-> h.tokenExpired,
     operations |-> h.operations]

\* the handler has answered: postJson returns the body
JobAnswered ==
    /\ pj.pc = "fetching"
    /\ job.handler # 0
    /\ srv.reqs[job.handler].pc = "done"
    /\ pj' = [IdlePost EXCEPT !.pc = "done", !.caller = pj.caller,
                              !.json = JsonOf(srv.reqs[job.handler])]
    /\ job' = [job EXCEPT !.handler = 0]
    /\ UNCHANGED exceptJob

\* postJson has returned or thrown: `try { await api.submitBatchLog(...) }
\* catch {}` goes on to api.extendVideo, whose outcome is extendFlow's
ExtendFlowStep ==
    /\ pj.caller = "extendFlow"
    /\ pj.pc \in {"done", "thrown"}
    /\ IF job.pc = "logging"
       THEN /\ job' = [job EXCEPT !.pc = "extending",
                                  !.posted = Append(@, "extend-video")]
            /\ pj' = StartedPost("extendFlow")
       ELSE /\ job' = [job EXCEPT !.pc = IF pj.pc = "done" THEN "returned" ELSE "thrown",
                                  !.json = pj.json]
            /\ pj' = IdlePost
    /\ UNCHANGED exceptJob

(***************************************************************************)
(* veo3FlowApi.js: generateVideo and its model fallback                    *)
(***************************************************************************)
MaxModels == 3
ModelKeys == {"ultra_relaxed", "ultra_fl"}
ErrorMessages == {"quota", "unsafe"}
NoError == "null"

IdleGenerate ==
    [pc |-> "idle", modelKeys |-> <<>>, i |-> 0, lastError |-> NoError,
     attempts |-> <<>>,      \* history: the model keys posted, in order
     failures |-> <<>>,      \* history: the messages of the failed attempts
     result |-> [success |-> FALSE, model |-> "", error |-> NoError]]

\* `All video models failed. Last error: ${lastError}`
AllFailed(lastError) == [success |-> FALSE, model |-> "", error |-> lastError]

\* the head of the for loop at index i (0-based): the next model is posted,
\* or the loop is over and the failure is returned
FallbackLoopFirstOnly(g) ==
    IF g.i = 0 /\ g.i < Len(g.modelKeys)
    THEN [g EXCEPT !.pc = "awaiting", !.attempts = Append(@, g.modelKeys[g.i + 1])]
    ELSE [g EXCEPT !.pc = "done", !.result = AllFailed(g.lastError)]
FallbackLoop(g) ==
    IF g.i < Len(g.modelKeys)
    THEN [g EXCEPT !.pc = "awaiting", !.attempts = Append(@, g.modelKeys[g.i + 1])]
    ELSE [g EXCEPT !.pc = "done", !.result = AllFailed(g.lastError)]

\* generateVideo(mediaIds, prompt, { modelKeys }) up to its first await
GenerateVideoFrom(mediaCounts, keyLists) ==
    /\ gv.pc \in {"idle", "done", "thrown"}
    /\ \E n \in mediaCounts, keys \in keyLists :
          gv' = IF n # 2
                THEN \* throw new Error('generateVideo requires exactly 2 media IDs ...')
                     [IdleGenerate EXCEPT !.pc = "thrown", !.modelKeys = keys]
                ELSE FallbackLoop([IdleGenerate EXCEPT !.modelKeys = keys])
    /\ UNCHANGED exceptApi

\* _generateVideoWithModel returns its result
ModelSucceeds ==
    /\ gv.pc = "awaiting"
    /\ gv' = [gv EXCEPT !.pc = "done",
                  !.result = [success |-> TRUE, model |-> gv.modelKeys[gv.i + 1],
                              error |-> NoError]]
    /\ UNCHANGED exceptApi

\* _generateVideoWithModel throws: the catch block, i++ and the loop head
ModelFails ==
    /\ gv.pc = "awaiting"
    /\ \E message \in ErrorMessages :
          gv' = FallbackLoop([gv EXCEPT !.lastError = message, !.i = @ + 1,
                                        !.failures = Append(@, message)])
    /\ UNCHANGED exceptApi

(***************************************************************************)
(* Specifications                                                          *)
(***************************************************************************)
Init ==
    /\ tokenPool = <<>>
    /\ currentTokenIndex = 0
    /\ lastToken = NoToken
    /\ served = <<>>
    /\ loadCall = NoLoad
    /\ recentRequests = [h \in Hashes |-> Absent]
    /\ now = 0
    /\ ticks = 0
    /\ dedupCall = [hash |-> "", at |-> 0, dup |-> FALSE,
                    accepted |-> [h \in Hashes |-> Absent],
                    refused |-> [h \in Hashes |-> Absent], prev |-> Absent]
    /\ rateLimitStats = [totalRequests |-> 0, rateLimitedRequests |-> 0,
                         retriedRequests |-> 0, failedAfterRetry |-> 0,
                         lastRateLimitTime |-> Absent,
                         tokenUsageByAccount |-> [a \in {} |-> NoUsage]]
    /\ rq = [c \in Calls |-> IdleCall]
    /\ pj = IdlePost
    /\ poll = IdlePoll
    /\ chain = IdleChain
    /\ srv = IdleServer
    /\ gv = IdleGenerate
    /\ bearer = IdleBearer
    /\ job = IdleJob

NextPool == LoadTokenPool \/ GetNextToken \/ GetTokenByName
SpecPool == Init /\ [][NextPool]_vars

\* lookups by name and round-robin calls on the pools of one or two names, the
\* empty one included, while the credentials of the ambient session are
\* loaded and its bearer token is fetched, validated or refused
LookupPools == UNION {[1..n -> Names \cup {"B"}] : n \in 1..2}
NextLookup ==
    \/ LoadTokenPoolFrom(LookupPools, {TRUE}) \/ GetNextToken \/ GetTokenByName
    \/ LoadCredentials({"A"})
    \/ ValidateAnswer(0, BOOLEAN)
    \/ SessionAnswer(0, {"access_token", "401"})
SpecLookup == Init /\ [][NextLookup]_vars

NextDedup == Tick \/ IsDuplicateRequest
SpecDedup == Init /\ [][NextDedup]_vars

NextPostJson == PostJsonRespond429 \/ PostJsonWake \/ PostJsonRespondError

\* one server call and one client api call, each with its own backoff
NextBackoff ==
    \/ RetryStep(1)
    \/ ApiCall \/ PostJsonRespondOk \/ ApiReturn
    \/ NextPostJson
SpecBackoff == Init /\ [][NextBackoff]_vars

\* two server calls against a provider that names no wait or 40 seconds
NextRetry ==
    \E c \in Calls :
        \/ RetryStart(c) \/ RetryRespondOk(c) \/ RetryRespondError(c)
        \/ RetryRespond429With(c, {NoHeader, <<"4", "0">>}) \/ RetryWake(c)
SpecRetry == Init /\ [][NextRetry]_vars

\* one executor call through any proxy string of up to MaxProxyLen characters
NextProxy ==
    \/ RetryStartWith(1, {0, 1}, ProxyStrings)
    \/ RetryRespondOk(1) \/ RetryRespondError(1)
    \/ RetryRespond429(1) \/ RetryWake(1)
SpecProxy == Init /\ [][NextProxy]_vars

\* two executor calls while the statistics may be reset at any moment
NextStats ==
    \/ \E c \in Calls :
          \/ RetryStartWith(c, 0..2, {NoProxyString})
          \/ RetryRespondOk(c) \/ RetryRespondError(c)
          \/ RetryRespond429(c) \/ RetryWake(c)
    \/ ResetRateLimitStats
SpecStats == Init /\ [][NextStats]_vars

NextPoll ==
    \/ PollStart \/ PostJsonRespondStatus \/ PollHandle \/ PollWake \/ PollReturn
    \/ NextPostJson
SpecPoll == Init /\ [][NextPoll]_vars

\* pollOperation with a budget of 0..MaxTriesBound checks, every request and
\* every timer of which is eventually answered
NextPollFair ==
    \/ PollStartWith(0..MaxTriesBound, IntervalOptions)
    \/ PostJsonRespondStatus \/ PollHandle \/ PollWake \/ PollReturn
    \/ NextPostJson
SpecPollFair == Init /\ [][NextPollFair]_vars /\ WF_vars(NextPollFair)

\* one job of two variants against a provider answering anything
OneNewPrompt == { << <<"(", "N", "E", "W", ")", " ", "s", "u", "n", "r", "i", "s", "e">> >> }
OneScene == { << Clip("c0", <<"0", "s">>, <<"8", "s">>, <<"i", "n", "t", "r", "o">>) >> }
NextBatch ==
    \/ SceneLoaded(OneScene, {"idle"}) \/ StartChain(OneNewPrompt)
    \/ SubmitAnswer(0..2) \/ NotifyDone \/ PollAnswer(AnswerTable) \/ PollSleepOver
    \/ Download({1, 2}) \/ ReportDone \/ UpdateAnswer \/ Resume
SpecBatch == Init /\ [][NextBatch]_vars

\* chains of up to MaxPrompts prompts on a page that reports its scene before
\* the run starts, against a provider whose two variants move together and
\* whose videos can be fetched
ChainTexts == { <<"(", "N", "e", "w", ")", " ", "x">>, <<"g", "u", "l", "l", "s">> }
PromptLists == UNION {[1..n -> ChainTexts] : n \in 1..MaxPrompts}
NextChain ==
    \/ SceneLoaded(ShortSceneClipLists, {"idle"}) \/ StartChain(PromptLists)
    \/ SubmitAnswer({2}) \/ NotifyDone \/ PollAnswer(PlainTable) \/ PollSleepOver
    \/ Download({}) \/ UpdateAnswer \/ Resume
SpecChain == Init /\ [][NextChain]_vars

\* one continuation on a scene of one clip, seconds or months long
NextClips ==
    \/ SceneLoaded(SceneClipLists \cup LongSceneClipLists, {"idle"})
    \/ StartChain({ << <<"g", "u", "l", "l", "s">> >> })
    \/ SubmitAnswer({2}) \/ NotifyDone \/ PollAnswer(PlainTable) \/ PollSleepOver
    \/ Download({}) \/ UpdateAnswer \/ Resume
SpecClips == Init /\ [][NextClips]_vars

\* chains of one or two prompts while the page may report its scene again at
\* any moment: an empty scene, one clip, or two clips
ChainPhases == {"idle", "submitting", "notifying", "polling", "sleeping",
                "downloading", "updating", "pausing", "finished", "crashed"}
AnchorScenes ==
    { <<>>,
      << Clip("c0", <<"0", "s">>, <<"8", "s">>, <<"i", "n", "t", "r", "o">>) >>,
      << Clip("c1", <<"0", "s">>, <<"8", "s">>, <<"i", "n", "t", "r", "o">>),
         Clip("c2", <<"8", "s">>, <<"1", "5", "s">>, <<"g", "u", "l", "l", "s">>) >> }
AnchorPrompts == UNION {[1..n -> ChainTexts] : n \in 1..2}
NextAnchor ==
    \/ SceneLoaded(AnchorScenes, ChainPhases) \/ StartChain(AnchorPrompts)
    \/ SubmitAnswer({2}) \/ NotifyDone \/ PollAnswer(PlainTable) \/ PollSleepOver
    \/ Download({}) \/ UpdateAnswer \/ Resume
SpecAnchor == Init /\ [][NextAnchor]_vars

\* requests received by the endpoints `es`; each payload of `payloads` is the
\* lane it names and its fingerprint (the lane name is part of what is hashed)
Requests(es, payloads) ==
    \E r \in Reqs, e \in es, p \in payloads : Arrive(r, e, p[1], p[2])

\* the same, one request at a time
RequestsInTurn(es, payloads) ==
    \E e \in es, p \in payloads : Arrive(1, e, p[1], p[2])

\* chains pinned to lane "A" or to the unknown lane "X", while the pool is
\* reloaded (with "A" or without it; it is empty at first), the session gets
\* its credentials from tokens.txt and status checks for other lanes move the
\* cursor. The record of a handler is a local constant (const tokenObj,
\* src/server.js 3618), which nothing another handler does can change, so the
\* requests are taken one at a time.
LanePools == { <<"C", "A">>, <<"C">> }
NextLanes ==
    \/ LoadTokenPoolFrom(LanePools, {TRUE})
    \/ LoadCredentials({"A"})
    \/ RequestsInTurn({"generate-start-end", "check-status"},
                      {<<"A", "h1">>, <<"X", "h2">>})
    \/ StoreRead(1)
    \/ ProviderAnswerWith(1, {200}, {FullBody})
    \/ \E f \in {0, 1} : \/ ValidateAnswer(f, {TRUE})
                         \/ SessionAnswer(f, {"access_token"})
SpecLanes == Init /\ [][NextLanes]_vars

\* identical generate-start-end submissions over time, taking their
\* credential from a pool that may be loaded
RaceSteps == {3000}
NextRace ==
    \/ TickBy(RaceSteps)
    \/ LoadTokenPoolFrom({ <<"A", "B">> }, {TRUE})
    \/ Requests(DedupEndpoints, {<<"", "h1">>})
    \/ \E r \in Reqs : SessionAnswer(r, SessionAnswers) \/ ProviderAnswer(r)
SpecRace == Init /\ [][NextRace]_vars

\* a submission, the status check, the scene update and the project fetch
\* against a provider that may answer 401 or, a few times, 429, with the
\* session's credentials loaded or not
NextExpiry ==
    \/ LoadCredentials({"A"})
    \/ RequestsInTurn({"generate-start-end", "check-status"} \cup ProjectEndpoints,
                      {<<"", "h1">>})
    \/ \E f \in {0, 1} : AuthStep(f)
    \/ ProviderAnswerWith(1, {200, 401, 429, 500}, AnswerBodies)
    \/ RateLimitedWith(1, {NoHeader})
    \/ BackoffOver(1)
SpecExpiry == Init /\ [][NextExpiry]_vars

\* generate-start-end submissions without seeds and with three seeds, two of
\* them equal, each possibly sent again at once, on a lane whose token is
\* fetched and a lane with a saved authorization
NoSeedsBody ==
    [PlainBody EXCEPT !.hasSeeds = FALSE, !.seeds = <<>>,
                      !.startImageMediaId = "m-start",
                      !.endImageMediaId = "m-end", !.sceneId = GivenSceneId(1)]
ThreeSeedsBody ==
    [PlainBody EXCEPT !.seeds = <<7, 7, 9>>, !.startImageMediaId = "m-first",
                      !.endImageMediaId = "m-last", !.sceneId = GivenSceneId(2)]
NextStartEnd ==
    \/ LoadTokenPoolFrom({ <<"A", "C">> }, {TRUE})
    \/ \E r \in Reqs, p \in {<<"h1", NoSeedsBody>>, <<"h2", ThreeSeedsBody>>} :
          ArriveWith(r, "generate-start-end", "", p[1], p[2])
    \/ \E r \in Reqs : SessionAnswer(r, {"access_token", "500"}) \/ ProviderAnswer(r)
SpecStartEnd == Init /\ [][NextStartEnd]_vars

\* identical submissions to every submission endpoint over time
NextSubmit ==
    \/ LoadCredentials({"A"})
    \/ Requests(SubmitEndpoints, {<<"", "h1">>})
    \/ ValidateAnswer(0, {TRUE}) \/ SessionAnswer(0, {"access_token"})
    \/ \E r \in Reqs : \/ ValidateAnswer(r, {TRUE})
                       \/ VersionAnswer(r, {"refused"})
                       \/ SessionAnswer(r, {"access_token"})
                       \/ LogDone(r)
                       \/ ProviderAnswerWith(r, {200}, {FullBody})
SpecSubmit == Init /\ [][NextSubmit]_vars

\* startJob called with a previous media id and any other arguments, against
\* a server whose session finds its credentials in Chrome or does not
ExtendArgs ==
    [previousMediaGenerationId : {"", "m1"}, prompt : {"p1"},
     textToVideo : BOOLEAN, startImageMediaId : {"", "img"},
     endImageMediaId : {""}, startImageFile : {FALSE}, endImageFile : {FALSE},
     imageFiles : {0}, durationSec : {NoDuration, 5}]
NextExtend ==
    \/ StartJobFrom(ExtendArgs)
    \/ \E r \in Reqs : JobArrives(r)
    \/ JobAnswered
    \/ ExtendFlowStep
    \/ PostJsonRespond429
    \/ PostJsonWake
    \/ PostJsonRespondError
    \/ \E r \in Reqs : \/ ValidateAnswer(r, {TRUE})
                       \/ VersionAnswer(r, {"endpoint", "refused"})
                       \/ ConnectAnswer(r, {TRUE})
                       \/ PagesAnswer(r, {"whisk"})
                       \/ ExtractAnswer(r, {"both", "throws"})
                       \/ SessionAnswer(r, {"access_token"})
                       \/ ProviderAnswerWith(r, {200}, {FullBody})
SpecExtend == Init /\ [][NextExtend]_vars

\* generateVideo called with one to three model keys, and with one media id
KeyLists == UNION {[1..n -> ModelKeys] : n \in 0..MaxModels}
NextFallback ==
    \/ GenerateVideoFrom({1, 2}, KeyLists)
    \/ ModelSucceeds
    \/ ModelFails
SpecFallback == Init /\ [][NextFallback]_vars

\* getAccessToken calls for the global session and the lanes "A" and "B" of
\* the pool, forced or not, while credentials are stored in the session and the
\* cached tokens age to just below and to exactly 55 minutes
AgeSteps == {1, MaxAgeMs - 1}
Age == ticks < MaxAges /\ TickBy(AgeSteps)
NextSession ==
    \/ LoadTokenPoolFrom({ <<"A", "B">> }, {TRUE})
    \/ LoadCredentials({"A", "D"})
    \/ LaunchChrome({"both", "none"})
    \/ CaptureToken({"cookiesOnly"})
    \/ GetAccessTokenFor({"session", "A", "B"}, BOOLEAN)
    \/ ValidateAnswer(0, BOOLEAN)
    \/ VersionAnswer(0, DebuggerAnswers)
    \/ ConnectAnswer(0, BOOLEAN)
    \/ PagesAnswer(0, PagesAnswers)
    \/ ExtractAnswer(0, ExtractOutcomes)
    \/ SessionAnswer(0, SessionAnswers)
    \/ Age
SpecSession == Init /\ [][NextSession]_vars

\* identical generate-start-end submissions, for the unknown lane "X" or with
\* no lane, sent again half a window, a whole window and more after the
\* first while the earlier ones fail or succeed
ResubmitSteps == {REQUEST_DEDUP_WINDOW_MS \div 2}
NextResubmit ==
    \/ TickBy(ResubmitSteps)
    \/ LoadTokenPoolFrom({ <<"A">> }, {TRUE})
    \/ RequestsInTurn(DedupEndpoints, {<<"X", "h1">>, <<"", "h2">>})
    \/ StoreRead(1)
    \/ SessionAnswer(1, {"access_token", "500"})
    \/ ProviderAnswerWith(1, {200, 500}, {FullBody})
SpecResubmit == Init /\ [][NextResubmit]_vars

Next == NextPool \/ NextDedup \/ NextRetry \/ NextBackoff \/ NextPoll
            \/ NextBatch \/ NextChain \/ NextLanes \/ NextRace \/ NextSubmit
            \/ NextExpiry \/ NextLookup \/ NextStats
            \/ NextProxy \/ NextStartEnd \/ NextExtend
            \/ NextFallback \/ NextSession \/ NextAnchor \/ NextResubmit
            \/ NextClips
Spec == Init /\ [][Next]_vars

(***************************************************************************)
(* Properties                                                              *)
(***************************************************************************)

\* C1: round-robin fairness. With a loaded pool of N >= 1 records, the k-th
\* getNextToken() result since the load is pool entry ((k-1) mod N): the first
\* N results are the pool in insertion order and result N+1 is the first entry.
C1_RoundRobin ==
    Len(tokenPool) >= 1 =>
        \A k \in 1..Len(served) :
            served[k] = tokenPool[((k - 1) % Len(tokenPool)) + 1]

C1_Witness ==
    /\ Len(tokenPool) = 3
    /\ Len(served) = 4
    /\ served[4] = tokenPool[1]
    /\ served[2] # served[1]

\* C2: dedup window. A call with fingerprint h made at time t, when the last
\* call with h that returned false was at t0, returns true (duplicate) if
\* t - t0 <= 3000 and false if t - t0 > 3000 (or if h was never accepted).
C2_DedupWindow ==
    dedupCall.hash # "" =>
        (dedupCall.dup <=>
            (dedupCall.prev # Absent
             /\ dedupCall.at - dedupCall.prev <= REQUEST_DEDUP_WINDOW_MS))

C2_Witness ==
    /\ dedupCall.hash # ""
    /\ dedupCall.prev # Absent
    /\ dedupCall.at - dedupCall.prev = REQUEST_DEDUP_WINDOW_MS
    /\ dedupCall.dup

C2_WitnessAfter ==
    /\ dedupCall.hash # ""
    /\ dedupCall.prev # Absent
    /\ dedupCall.at - dedupCall.prev = REQUEST_DEDUP_WINDOW_MS + 1
    /\ ~dedupCall.dup
\* C3: backoff growth. After the k-th consecutive 429 response without a
\* Retry-After header (k = 0, 1, 2, ...), with a retry left, the wait before the
\* next attempt is 1000, 2000, 4000, 8000, 16000 ms for k = 0..4 and 32000 ms
\* for every k >= 5, in axiosWithRetry and in the client's postJson alike.
ExpectedBackoff(k) ==
    IF k < 5 THEN <<1000, 2000, 4000, 8000, 16000>>[k + 1] ELSE 32000

C3_BackoffGrowth ==
    /\ \A c \in Calls :
        (rq[c].pc = "waiting" /\ rq[c].retryAfter = NoHeader) =>
            rq[c].waitMs = Number(ExpectedBackoff(rq[c].n429 - 1))
    /\ (pj.pc = "backoff" /\ pj.retryAfter = NoHeader) =>
            pj.waitMs = Number(ExpectedBackoff(pj.n429 - 1))

C3_Witness ==
    /\ rq[1].pc = "waiting"
    /\ rq[1].retryAfter = NoHeader
    /\ rq[1].n429 = 7
    /\ rq[1].waitMs = Number(32000)
    /\ pj.pc = "backoff"
    /\ pj.retryAfter = NoHeader
    /\ pj.n429 = 3
    /\ pj.waitMs = Number(4000)

\* C4: retry exhaustion. A call all of whose attempts are answered 429 makes
\* exactly maxRetries + 1 HTTP attempts and then fails with the rate-limit
\* error; failedAfterRetry counts exactly one per such call; and the call
\* cannot get stuck: a waiting call can always make its next attempt, and no
\* call makes more than maxRetries + 1 attempts.
Throttled(c) == rq[c].pc # "idle" /\ rq[c].n429 = rq[c].attempts

C4_RetryExhaustion ==
    /\ \A c \in Calls :
        /\ rq[c].attempts <= rq[c].maxRetries + 1
        /\ rq[c].pc = "rateLimitExceeded" =>
              (Throttled(c) /\ rq[c].attempts = rq[c].maxRetries + 1)
        /\ Throttled(c) =>
              /\ rq[c].pc \in {"waiting", "rateLimitExceeded"}
              /\ rq[c].pc = "waiting" =>
                    (rq[c].attempts <= rq[c].maxRetries /\ ENABLED RetryWake(c))
              /\ rq[c].attempts = rq[c].maxRetries + 1 =>
                    rq[c].pc = "rateLimitExceeded"
    /\ rateLimitStats.failedAfterRetry =
          Cardinality({c \in Calls : rq[c].pc = "rateLimitExceeded"})

C4_Witness ==
    /\ rq[1].pc = "rateLimitExceeded"
    /\ rq[1].maxRetries = 5
    /\ rq[1].attempts = 6
    /\ rq[2].pc = "returned"
    /\ rq[2].n429 = 2
    /\ rateLimitStats.failedAfterRetry = 1

\* C5: poll termination on success. When the status checks of one
\* pollOperation call have answered PENDING, ACTIVE, SUCCESSFUL, the call has
\* returned that SUCCESSFUL operation (with its media id) after exactly 3
\* status checks; after PENDING and after PENDING, ACTIVE it is still polling.
Polling == poll.pc \in {"sleeping", "checking"}

C5_PollSuccess ==
    /\ (poll.pc # "idle" /\ poll.answers = <<StatusJson(OpPending)>>) =>
          (Polling \/ (poll.pc = "thrown" /\ poll.error \in {"Timeout polling status", "postJson"}))
    /\ (poll.pc # "idle"
        /\ poll.answers = <<StatusJson(OpPending), StatusJson(OpActive),
                            StatusJson(OpSuccessful)>>) =>
          /\ poll.pc = "returned"
          /\ poll.result = OpSuccessful
          /\ poll.result.mediaId = "m1"
          /\ poll.checks = 3

C5_Witness ==
    /\ poll.pc = "returned"
    /\ poll.answers = <<StatusJson(OpPending), StatusJson(OpActive),
                        StatusJson(OpSuccessful)>>
    /\ poll.maxTries = DefaultMaxTries
    /\ poll.checks = 3
\* C6: high-traffic retry. FAILED with a HIGH_TRAFFIC message does not end the
\* poll: after the answers FAILED(HIGH_TRAFFIC), FAILED(HIGH_TRAFFIC),
\* SUCCESSFUL the call has returned the successful operation on its third
\* check, and after one or two such FAILED answers it has not failed with a
\* generation error. A FAILED answer with any other message ends the poll with
\* the generation error on that very check.
LastAnswer == poll.answers[Len(poll.answers)]

C6_HighTrafficRetry ==
    /\ (poll.pc # "idle"
        /\ poll.answers \in {<<StatusJson(OpHighTraffic)>>,
                             <<StatusJson(OpHighTraffic), StatusJson(OpHighTraffic)>>}) =>
          (Polling \/ (poll.pc = "thrown"
                       /\ poll.error \in {"Timeout polling status", "postJson"}))
    /\ (poll.pc # "idle"
        /\ poll.answers = <<StatusJson(OpHighTraffic), StatusJson(OpHighTraffic),
                            StatusJson(OpSuccessful)>>) =>
          /\ poll.pc = "returned"
          /\ poll.result = OpSuccessful
          /\ poll.checks = 3
    /\ (poll.pc # "idle" /\ poll.answers # <<>>
        /\ LastAnswer \in {StatusJson(OpUnsafe), StatusJson(OpFailedShort)}) =>
          /\ poll.pc = "thrown"
          /\ poll.error = "Generation failed"
          /\ poll.checks = Len(poll.answers)

C6_Witness ==
    /\ poll.pc = "returned"
    /\ poll.answers = <<StatusJson(OpHighTraffic), StatusJson(OpHighTraffic),
                        StatusJson(OpSuccessful)>>
    /\ poll.checks = 3
\* C7: in the batch poll loop a FAILED operation whose reason is HIGH_TRAFFIC
\* does not count toward the completion tally: the loop is over (pollDone)
\* only when the successes plus the failures other than HIGH_TRAFFIC reach
\* totalVariants.
C7_HighTrafficNotTallied ==
    (chain.lastTick.kind = "ops" /\ chain.pollDone) =>
        chain.lastTick.successful
            + (chain.lastTick.failed - chain.lastTick.highTraffic)
                >= chain.totalVariants

\* C8: batch poll termination. While the loop runs, no tick so far had
\* successes + failures >= totalVariants and fewer than 120 requests were
\* needed; the loop is left on the first tick that has, and otherwise after
\* exactly 120 ticks; a tick whose request throws only uses up one attempt.
\* Each tick sends one status request, so at most 120 are sent.
CompletingTick ==
    /\ chain.lastTick.kind = "ops"
    /\ chain.lastTick.successful + chain.lastTick.failed >= chain.totalVariants

InPollLoop == chain.pc \in {"polling", "sleeping"}
PollOver == chain.requestsSent > 0 /\ ~InPollLoop

C8_BatchPollTermination ==
    /\ chain.requestsSent <= 120
    /\ chain.requestsSent = chain.pollAttempts
    /\ InPollLoop =>
          (~CompletingTick /\ ~chain.pollDone /\ chain.requestsSent >= 1)
    /\ PollOver =>
          \/ (CompletingTick /\ chain.pollDone)
          \/ (~CompletingTick /\ ~chain.pollDone /\ chain.requestsSent = 120)
    /\ (chain.lastTick.kind = "threw" /\ chain.requestsSent < 120) => InPollLoop

C8_Witness ==
    /\ PollOver
    /\ chain.requestsSent = 120
    /\ chain.lastTick.kind = "threw"
    /\ ~chain.pollDone

\* C9 as stated: selectedMediaId is the media id of the first SUCCESSFUL
\* operation observed in the job (lowest index of the first tick with one).
C9_FirstSuccessfulSelected ==
    chain.firstSuccessful # Null => chain.selectedMediaId = chain.firstSuccessful

\* C9 amended: selectedMediaId is the media id of the first SUCCESSFUL
\* operation observed that carries a mediaGenerationId (lowest index of the
\* first tick with one), null before, and never changes afterwards; the URLs
\* of successes are collected each at most once.
C9_FirstSuccessWins ==
    /\ chain.selectedMediaId = chain.firstWithMedia
    /\ \A j, k \in 1..Len(chain.videoUrls) :
          chain.videoUrls[j] = chain.videoUrls[k] => j = k
    /\ \A k \in 1..Len(chain.videoUrls) : chain.videoUrls[k] \in {"u1", "u2"}

C9_Witness ==
    /\ chain.pc = "polling"
    /\ chain.requestsSent >= 3
    /\ chain.selectedMediaId = "m2"
    /\ chain.firstSuccessful = ""
    /\ chain.videoUrls = <<"u2", "u1">>

\* C10: clip chaining. The clip appended to a list whose last clip ends at E
\* starts at E + 0.000000001 s and ends 7 s after its start, both written with
\* nine decimals and the "s" suffix: "10.5s" gives "10.500000001s" and
\* "17.500000001s", "7.000000001s" gives "7.000000002s"; an empty list counts
\* as E = 0. E is read as the exact decimal it is written as, in whole
\* nanoseconds: <<seconds, nanoseconds>>.
LastOf(seq) == seq[Len(seq)]
NewClipOf == LastOf(chain.updatedClips)
PrevEnd == LastOf(chain.initialClips).endTime

\* "ddd s" or "ddd.ddd s" with at most nine digits on either side
PlainSeconds(chars) ==
    LET n == DigitRun(chars, 1)
        f == IF CharAt(chars, n + 1) = "." THEN DigitRun(chars, n + 2) ELSE 0
    IN /\ 1 <= n /\ n <= 9 /\ f <= 9
       /\ CharAt(chars, n + 1) = "." => f >= 1
       /\ Len(chars) = (IF f = 0 THEN n ELSE n + 1 + f) + 1
       /\ chars[Len(chars)] = "s"

ExactSeconds(chars) ==
    LET n == DigitRun(chars, 1)
        f == IF CharAt(chars, n + 1) = "." THEN DigitRun(chars, n + 2) ELSE 0
    IN <<SmallInt(chars, 1, n, 0), SmallInt(chars, n + 2, n + 1 + f, 0) * 10^(9 - f)>>

AddNanos(t, seconds, nanos) ==
    <<t[1] + seconds + ((t[2] + nanos) \div 10^9), (t[2] + nanos) % 10^9>>

NineDecimals(t) ==
    BToDecimal(BFromInt(t[1])) \o <<".">>
        \o [i \in 1..9 |-> Digits[((t[2] \div 10^(9 - i)) % 10) + 1]] \o <<"s">>

C10_ClipChaining ==
    chain.pc = "updating" =>
        /\ Len(chain.updatedClips) = Len(chain.initialClips) + 1
        /\ NewClipOf.clipId = chain.selectedMediaId
        /\ chain.initialClips = <<>> =>
              /\ NewClipOf.startTime = <<"0", ".", "0", "0", "0", "0", "0", "0", "0", "0", "1", "s">>
              /\ NewClipOf.endTime = <<"7", ".", "0", "0", "0", "0", "0", "0", "0", "0", "1", "s">>
        /\ (chain.initialClips # <<>> /\ PlainSeconds(PrevEnd)) =>
              /\ NewClipOf.startTime = NineDecimals(AddNanos(ExactSeconds(PrevEnd), 0, 1))
              /\ NewClipOf.endTime = NineDecimals(AddNanos(ExactSeconds(PrevEnd), 7, 1))
              /\ PrevEnd = <<"1", "0", ".", "5", "s">> =>
                    /\ NewClipOf.startTime = <<"1", "0", ".", "5", "0", "0", "0", "0", "0", "0", "0", "1", "s">>
                    /\ NewClipOf.endTime = <<"1", "7", ".", "5", "0", "0", "0", "0", "0", "0", "0", "1", "s">>
              /\ PrevEnd = <<"7", ".", "0", "0", "0", "0", "0", "0", "0", "0", "1", "s">> =>
                    NewClipOf.startTime = <<"7", ".", "0", "0", "0", "0", "0", "0", "0", "0", "2", "s">>

\* C11: scene update commit. The list posted to project.updateScene is the
\* local clip list with the new clip appended last (earlier clips unchanged,
\* one more element, the new clip carrying the selected media id). When the
\* call succeeds the local list becomes the posted list and lastClipId the new
\* clip's id; when it fails the local list and lastClipId stay as they were
\* and the failure is recorded.
UpdateAnswered == chain.pc = "updating" /\ chain' # chain

C11_SceneUpdateCommit ==
    [][UpdateAnswered =>
        /\ Len(chain.updatedClips) = Len(chain.initialClips) + 1
        /\ SubSeq(chain.updatedClips, 1, Len(chain.initialClips)) = chain.initialClips
        /\ NewClipOf.clipId = chain.selectedMediaId
        /\ \/ /\ chain'.pc = "pausing"
              /\ chain'.initialClips = chain.updatedClips
              /\ chain'.lastClipId = NewClipOf.clipId
              /\ chain'.errorPrompts = chain.errorPrompts
           \/ /\ chain'.pc # "pausing"
              /\ chain'.initialClips = chain.initialClips
              /\ chain'.lastClipId = chain.lastClipId
              /\ chain'.errorPrompts =
                    Append(chain.errorPrompts,
                           [number |-> chain.promptIndex + 2, error |-> "Lỗi updateScene"])
    ]_vars

\* job 1 was committed (two clips, anchor = the new clip), job 2's update failed
C11_Witness ==
    /\ chain.pc = "finished"
    /\ Len(chain.prompts) = 2
    /\ Len(chain.initialClips) = 2
    /\ chain.initialClips[1].clipId = "c0"
    /\ chain.lastClipId = chain.initialClips[2].clipId
    /\ chain.lastClipId # "c0"
    /\ chain.errorPrompts = <<[number |-> 3, error |-> "Lỗi updateScene"]>>

\* C12: the steps of a chain are strictly sequential. A generation request is
\* sent only when the run starts, or after the previous job's scene update was
\* answered (acknowledged, then the pause; or failed and recorded), or after
\* the previous job was skipped at its submission or at the end of its poll
\* loop; never while the previous job's downloads or update are outstanding.
GenerateSent == chain'.pc = "submitting" /\ chain' # chain

C12_StrictlySequential ==
    [][GenerateSent =>
        \/ /\ chain.pc = "idle"
           /\ chain'.promptIndex = 0
        \/ /\ chain'.promptIndex = chain.promptIndex + 1
           /\ chain'.errorPrompts = chain.errorPrompts
           /\ chain'.initialClips = chain.initialClips
           /\ \/ /\ chain.pc = "pausing"
                 /\ chain.initialClips = chain.updatedClips
              \/ /\ chain.pc = "notifying"
                 /\ Len(chain.errorPrompts) > 0
                 /\ LastOf(chain.errorPrompts).number = chain.promptIndex + 2
                 /\ LastOf(chain.errorPrompts).error \in
                       {"Lỗi updateScene", "Timeout poll video", "Lỗi generate request"}
              \/ chain.pc = "submitting"
    ]_vars

\* job 2 is being submitted after job 1's update was acknowledged
C12_Witness ==
    /\ chain.pc = "submitting"
    /\ chain.promptIndex = 1
    /\ chain.request.type = "continue"
    /\ chain.initialClips = chain.updatedClips
    /\ Len(chain.initialClips) = 2
    /\ chain.request.videoInput = chain.initialClips[2].clipId
    /\ chain.errorPrompts = <<>>

\* C13: a failed scene update halts the chain. Once the update call of job k
\* has failed, no later job of the chain is submitted: no generation request
\* is outstanding for a prompt after one whose update failure is recorded.
UpdateFailedBefore(n) ==
    \E k \in 1..Len(chain.errorPrompts) :
        /\ chain.errorPrompts[k].error = "Lỗi updateScene"
        /\ chain.errorPrompts[k].number < n

C13_UpdateFailureHalts ==
    chain.pc = "submitting" => ~UpdateFailedBefore(chain.promptIndex + 2)

\* C14: poll timeout / no success. When a job's poll loop ends with no
\* selected media id (budget of 120 ticks used up, or every variant finished
\* without a usable success), the job is recorded as failed ("Timeout poll
\* video"), the run goes on to the next prompt without downloading or posting
\* a scene update, the local clip list and lastClipId are unchanged, and the
\* job is not submitted again.
PollLoopLeft == InPollLoop /\ chain'.pc \notin {"polling", "sleeping"}

SkipRecorded(what) ==
    chain'.errorPrompts =
        Append(chain.errorPrompts, [number |-> chain.promptIndex + 2, error |-> what])

Notified == chain.pc = "notifying" /\ chain' # chain

C14_NoSuccessSkipsJob ==
    [][/\ PollLoopLeft =>
            /\ chain'.selectedMediaId = Null =>
                  /\ chain'.pc = "notifying"
                  /\ SkipRecorded("Timeout poll video")
                  /\ chain'.initialClips = chain.initialClips
                  /\ chain'.lastClipId = chain.lastClipId
                  /\ chain'.successCount = chain.successCount
            /\ chain'.pc # "notifying" =>
                  (chain'.selectedMediaId # Null /\ chain'.pollDone)
       /\ Notified =>
            /\ chain'.pc \in {"submitting", "finished", "crashed"}
            /\ chain'.promptIndex = chain.promptIndex + 1
            /\ chain'.errorPrompts = chain.errorPrompts
            /\ chain'.initialClips = chain.initialClips
            /\ chain'.lastClipId = chain.lastClipId
            /\ chain'.successCount = chain.successCount
    ]_vars

\* job 1 used up its 120 ticks without a success and the run has moved on
C14_Witness ==
    /\ chain.pc \in {"submitting", "finished"}
    /\ chain.promptIndex = 1
    /\ chain.requestsSent = 120
    /\ chain.selectedMediaId = Null
    /\ ~chain.pollDone
    /\ chain.errorPrompts = <<[number |-> 2, error |-> "Timeout poll video"]>>
    /\ Len(chain.initialClips) = 1
    /\ chain.lastClipId = "c0"

\* job 1 ended on a tick where every variant had failed
C14_WitnessAllFailed ==
    /\ chain.pc \in {"submitting", "finished"}
    /\ chain.promptIndex = 1
    /\ chain.requestsSent < 120
    /\ chain.pollDone
    /\ chain.lastTick.failed = 2
    /\ chain.errorPrompts = <<[number |-> 2, error |-> "Timeout poll video"]>>

\* C15 as stated: in a chain on lane L, the submission and every status
\* check after it are sent to the provider with the credential record and
\* proxy of L, whatever the pool holds.
LaneOf(name) ==
    IF FindIndex(Store, name, 1) = 0 THEN NoToken
    ELSE Token(Store[FindIndex(Store, name, 1)])

\* the same credentials and proxy (a bearer token fetched for them apart)
SameLane(a, b) ==
    /\ a.name = b.name /\ a.proxy = b.proxy
    /\ a.cookies = b.cookies /\ a.sessionToken = b.sessionToken
    /\ a.authorization = b.authorization

Pinned(k) == SameLane(srv.sent[k].lane, LaneOf(srv.sent[k].tokenName))

\* request k sent to the provider belongs to a chain: it is a submission, or a
\* status check naming the lane of a submission sent before it
Chained(k) ==
    \/ srv.sent[k].endpoint = "generate-start-end"
    \/ /\ srv.sent[k].endpoint = "check-status"
       /\ \E j \in 1..(k - 1) :
             /\ srv.sent[j].endpoint = "generate-start-end"
             /\ srv.sent[j].tokenName = srv.sent[k].tokenName

C15_LanePinnedAlways ==
    \A k \in 1..Len(srv.sent) :
        srv.sent[k].tokenName # "" /\ Chained(k) => Pinned(k)

\* the record built from the session when the pool is empty
IsDefaultOf(lane, session) ==
    /\ lane.name = "default"
    /\ lane.cookies = session.cookies
    /\ lane.sessionToken = session.sessionToken
    /\ lane.accessToken = session.accessToken
    /\ lane.proxy = NoProxy /\ lane.authorization = NoAuthorization

\* the requests sent so far: a submission ran as the lane it names, a status
\* check as the lane it names if the pool held it, and else as the default
\* record or as another lane of the store
SentAsLookedUp ==
    \A k \in 1..Len(srv.sent) :
        LET q == srv.sent[k] IN
        q.tokenName # "" =>
            /\ q.endpoint = "generate-start-end" =>
                  (Pinned(k) /\ q.lane.name = q.tokenName)
            /\ q.endpoint = "check-status" =>
                  /\ q.inPool => (Pinned(k) /\ q.lane.name = q.tokenName)
                  /\ ~q.inPool =>
                        /\ q.lane.name # q.tokenName
                        /\ \/ q.lane.name = "default" /\ q.lane.proxy = NoProxy
                           \/ \E i \in 1..Len(Store) :
                                 /\ Store[i].name # q.tokenName
                                 /\ SameLane(q.lane, Token(Store[i]))

\* a status check naming a lane arrives in this step and takes handler r, the
\* first free one: its record is the pool's record of that name, the cursor
\* left alone, if the pool has one; else the default record of the session if
\* the pool is empty, and else the record at the cursor
LooksUp(r) ==
    LET h == srv'.reqs[r]
        pooled == \E i \in 1..Len(tokenPool) : tokenPool[i].name = h.tokenName
    IN /\ srv'.arrivals = srv.arrivals + 1
       /\ Free(r) /\ \A q \in Reqs : q < r => ~Free(q)
       /\ h.endpoint = "check-status" /\ h.tokenName # ""
       => /\ h.inPool = pooled
          /\ IF pooled
             THEN /\ SameLane(h.lane, LaneOf(h.tokenName))
                  /\ \E i \in 1..Len(tokenPool) : h.lane = tokenPool[i]
                  /\ currentTokenIndex' = currentTokenIndex
             ELSE IF tokenPool = <<>>
             THEN IsDefaultOf(h.lane, bearer.session)
             ELSE h.lane = tokenPool[currentTokenIndex + 1]

\* a status check keeps the record it looked up until it has answered, and
\* the request it sends carries that record
Carries(r) ==
    LET h == srv.reqs[r] IN
    h.endpoint = "check-status" /\ h.pc \notin {"idle", "done"} =>
        /\ srv'.reqs[r].lane = h.lane /\ srv'.reqs[r].inPool = h.inPool
        /\ srv'.reqs[r].tokenName = h.tokenName
        /\ srv'.reqs[r].pc = "sending" /\ h.pc # "sending" =>
              /\ Len(srv'.sent) = Len(srv.sent) + 1
              /\ srv'.sent[Len(srv'.sent)].lane = h.lane
              /\ srv'.sent[Len(srv'.sent)].tokenName = h.tokenName
              /\ srv'.sent[Len(srv'.sent)].inPool = h.inPool

\* C15 amended: a submission naming lane L is sent with the record and proxy
\* of L read from the credential store (or not sent at all when the store has
\* no L); a status check naming L is sent with the record and proxy of L
\* exactly when the pool holds L at the time of the lookup, whatever else is
\* interleaved; when the pool lacks L the check is run with the record
\* getNextToken() returns at that time, which is not L's: the default record
\* of the session if the pool is empty, the record at the cursor otherwise.
C15_LanePinnedWhenPooled ==
    /\ []SentAsLookedUp
    /\ [][\A r \in Reqs : LooksUp(r) /\ Carries(r)]_vars

\* a chain on lane A: its submission was sent as A; its next status check,
\* looked up while the pool was empty, was sent with the default record of
\* the session; the one after, looked up in a pool without A, was sent as C
C15_Witness ==
    /\ Len(srv.sent) = 3
    /\ srv.sent[1].endpoint = "generate-start-end"
    /\ srv.sent[2].endpoint = "check-status"
    /\ srv.sent[3].endpoint = "check-status"
    /\ \A k \in 1..3 : srv.sent[k].tokenName = "A"
    /\ srv.sent[1].lane.name = "A"
    /\ srv.sent[1].lane.cookies = Store[1].cookies
    /\ srv.sent[1].lane.proxy = Store[1].proxy
    /\ ~srv.sent[2].inPool
    /\ srv.sent[2].lane.name = "default"
    /\ srv.sent[2].lane.cookies = SavedTokens[1].cookies
    /\ srv.sent[2].lane.proxy = NoProxy
    /\ ~srv.sent[3].inPool
    /\ srv.sent[3].lane.name = "C"
    /\ srv.sent[3].lane.proxy = Store[3].proxy
    /\ tokenPool # <<>>

\* a chain on lane A whose submission and status check both ran as A while a
\* check for the unknown lane X took the cursor's record in between
C15_WitnessPinned ==
    /\ Len(srv.sent) = 3
    /\ srv.sent[1].endpoint = "generate-start-end"
    /\ srv.sent[2].endpoint = "check-status"
    /\ srv.sent[3].endpoint = "check-status"
    /\ \A k \in {1, 3} :
          /\ srv.sent[k].tokenName = "A"
          /\ srv.sent[k].lane.cookies = Store[1].cookies
          /\ srv.sent[k].lane.proxy = Store[1].proxy
    /\ srv.sent[3].inPool
    /\ srv.sent[2].tokenName = "X"
    /\ srv.sent[2].lane.name = "C"
    /\ currentTokenIndex = 1

\* C16: a duplicate submission is rejected before anything else happens. A
\* generate-start-end request whose fingerprint was accepted at most 3000 ms
\* ago is answered with a failure at once: nothing is sent to the provider,
\* the pool and its cursor are untouched, no credential is read or refreshed
\* and the rate-limit counters are unchanged; any other such request passes.
Received == srv'.arrivals = srv.arrivals + 1
Latest == srv'.arrived[Len(srv'.arrived)]
WithinWindow(h) ==
    recentRequests[h] # Absent /\ now - recentRequests[h] <= REQUEST_DEDUP_WINDOW_MS

C16_DuplicateRejectedFirst ==
    [][(Received /\ Latest.endpoint = "generate-start-end") =>
        /\ (Latest.verdict = "duplicate") <=> WithinWindow(Latest.hash)
        /\ Latest.verdict = "duplicate" =>
              /\ \E r \in Reqs : /\ srv'.reqs[r].pc = "done"
                                 /\ srv'.reqs[r].result = "duplicate"
                                 /\ srv'.reqs[r].at = now
              /\ srv'.sent = srv.sent
              /\ srv'.storeReads = srv.storeReads
              /\ srv'.authCalls = srv.authCalls
              /\ UNCHANGED <<tokenPool, currentTokenIndex, lastToken, served>>
              /\ UNCHANGED bearer
              /\ UNCHANGED <<rateLimitStats, rq>>
              /\ recentRequests'[Latest.hash] = recentRequests[Latest.hash]
        /\ Latest.verdict # "duplicate" => Latest.verdict = "passed"
    ]_vars

\* the second of two identical submissions, 3000 ms apart, was rejected while
\* the first, which took the pool's first record and moved the cursor, was sent
C16_Witness ==
    /\ Len(srv.arrived) = 2
    /\ srv.arrived[1].verdict = "passed"
    /\ srv.arrived[2].verdict = "duplicate"
    /\ srv.arrived[2].at = srv.arrived[1].at + 3000
    /\ Len(srv.sent) = 1
    /\ srv.sent[1].lane.name = "A"
    /\ currentTokenIndex = 1
    /\ srv.authCalls = 1
    /\ rateLimitStats.totalRequests = 1

\* C17: deduplication covers every generation submission. Of the submissions
\* with one payload that reach one endpoint within 3000 ms of each other, at
\* most one is sent to the provider, for each of the five submission endpoints.
SentTwice(e) ==
    \E j, k \in 1..Len(srv.sent) :
        /\ j < k
        /\ srv.sent[j].endpoint = e /\ srv.sent[k].endpoint = e
        /\ srv.sent[j].hash = srv.sent[k].hash
        /\ srv.sent[k].at - srv.sent[j].at <= REQUEST_DEDUP_WINDOW_MS

C17_EverySubmissionDeduplicated == \A e \in SubmitEndpoints : ~SentTwice(e)

\* C18 as stated: of the identical generate-start-end requests that arrive
\* within 3000 ms of the first, exactly one passes the dedup check and reaches
\* the provider once every handler has finished.
SameBurst(k) ==
    /\ srv.arrived[k].hash = srv.arrived[1].hash
    /\ srv.arrived[k].at - srv.arrived[1].at <= REQUEST_DEDUP_WINDOW_MS

Burst == {k \in 1..Len(srv.arrived) : SameBurst(k)}
Quiet == \A r \in Reqs : Free(r)
SentOfBurst ==
    {j \in 1..Len(srv.sent) :
        /\ srv.sent[j].hash = srv.arrived[1].hash
        /\ srv.sent[j].at - srv.arrived[1].at <= REQUEST_DEDUP_WINDOW_MS}

C18_ExactlyOneReachesProvider ==
    (Cardinality(Burst) >= 2 /\ Quiet) => Cardinality(SentOfBurst) = 1

\* C18 amended: of the identical generate-start-end requests that arrive
\* within 3000 ms of the first, in any interleaving, exactly one (the first)
\* passes the dedup check and all the others are rejected as duplicates; at
\* most one request is sent to the provider, and exactly one unless the
\* passing request fails before it is sent.
C18_ExactlyOnePassesDedup ==
    Len(srv.arrived) >= 1 =>
        /\ srv.arrived[1].verdict = "passed"
        /\ \A k \in Burst : k > 1 => srv.arrived[k].verdict = "duplicate"
        /\ Cardinality(SentOfBurst) <= 1
        /\ \A r \in Reqs :
              (/\ srv.reqs[r].hash = srv.arrived[1].hash
               /\ srv.reqs[r].at = srv.arrived[1].at
               /\ \/ srv.reqs[r].pc = "sending"
                  \/ srv.reqs[r].result \in {"ok", "badAnswer", "providerError"})
                  => Cardinality(SentOfBurst) = 1

\* two concurrent identical requests and a third 3000 ms after the first: one
\* request went out, the other two were rejected
C18_Witness ==
    /\ Len(srv.arrived) = 3
    /\ Cardinality(Burst) = 3
    /\ srv.arrived[2].at = srv.arrived[1].at
    /\ srv.arrived[3].at = srv.arrived[1].at + 3000
    /\ srv.arrived[2].verdict = "duplicate"
    /\ srv.arrived[3].verdict = "duplicate"
    /\ Len(srv.sent) = 1

\* C19: a duplicate hit does not refresh the entry. After a call answered true
\* the stored timestamp of h is still that of the last accepted call, after a
\* call answered false it is the time of that call; so a call more than
\* 3000 ms after the last accepted one is answered false even if a duplicate
\* was refused in between: calls at 0, 2000 and 4000 ms give false, true, false.
RefusedSinceAccepted ==
    /\ dedupCall.prev # Absent
    /\ dedupCall.refused[dedupCall.hash] # Absent
    /\ dedupCall.refused[dedupCall.hash] >= dedupCall.prev
    /\ dedupCall.refused[dedupCall.hash] < dedupCall.at

C19_DuplicateDoesNotRefresh ==
    dedupCall.hash # "" =>
        /\ dedupCall.dup => recentRequests[dedupCall.hash] = dedupCall.prev
        /\ ~dedupCall.dup => recentRequests[dedupCall.hash] = dedupCall.at
        /\ (RefusedSinceAccepted
            /\ dedupCall.at - dedupCall.prev > REQUEST_DEDUP_WINDOW_MS) => ~dedupCall.dup
        /\ (dedupCall.prev = 0 /\ dedupCall.refused[dedupCall.hash] = 2000
            /\ dedupCall.at = 4000) => ~dedupCall.dup

\* calls with h1 at 0, 2000 and 4000 ms: accepted, refused, accepted
C19_Witness ==
    /\ dedupCall.hash = "h1"
    /\ dedupCall.prev = 0
    /\ dedupCall.refused["h1"] = 2000
    /\ dedupCall.at = 4000
    /\ ~dedupCall.dup
    /\ recentRequests["h1"] = 4000

\* C20: any failure other than a 429 response (no response at all, 401, 4xx,
\* 5xx) makes axiosWithRetry throw that very error on that attempt: the call
\* does not wait or try again, and rateLimitedRequests, retriedRequests and
\* failedAfterRetry (like every other counter) are left as they were.
Settles(c) == rq[c].pc = "inflight" /\ rq'[c].pc # "inflight"

C20_OtherErrorsFailAtOnce ==
    [][\A c \in Calls :
        /\ (Settles(c) /\ rq'[c].settled \in OtherErrors) =>
              /\ rq'[c].pc = "failed"
              /\ rq'[c].thrown = rq'[c].settled
              /\ rq'[c].attempts = rq[c].attempts
              /\ rq'[c].retryCount = rq[c].retryCount
              /\ rq'[c].waitMs = Number(0)
              /\ rateLimitStats' = rateLimitStats
        /\ rq[c].pc = "failed" => rq'[c] = rq[c]
    ]_vars

\* call 1 was answered 429 twice and then 500: it failed on its third attempt
\* with the 500 error and the counters show the two 429 answers only
C20_Witness ==
    /\ rq[1].pc = "failed"
    /\ rq[1].thrown = Response(500)
    /\ rq[1].attempts = 3
    /\ rq[1].n429 = 2
    /\ rq[2].pc = "idle"
    /\ rateLimitStats.retriedRequests = 2
    /\ rateLimitStats.rateLimitedRequests = 1
    /\ rateLimitStats.failedAfterRetry = 0

\* C21: when the provider answers 401 to a call made for any endpoint, the
\* endpoint's result is a failure carrying tokenExpired: true
Answered401(r) ==
    /\ srv.reqs[r].pc = "done" /\ srv.reqs[r].result = "providerError"
    /\ srv.reqs[r].status = 401

C21_ExpirySurfaced ==
    \A r \in Reqs : Answered401(r) => srv.reqs[r].tokenExpired


\* C22: every public operation, pollOperation included, reports a failure as
\* a value {success: false, ...}: no call ever ends by throwing to its caller
C22_UniformResult == poll.pc # "thrown"


\* C23: getTokenByName(name) with a name present in the pool returns the pool
\* entry of that name and leaves the cursor unchanged; with an absent or
\* empty name it returns what getNextToken() returns and advances the cursor
\* as getNextToken() does
NamePresent(name) ==
    name # "" /\ \E k \in 1..Len(tokenPool) : tokenPool[k].name = name

C23_LookupByName ==
    [][\A name \in Names \cup {""} :
        LookupByName(name) =>
            IF NamePresent(name)
            THEN /\ lastToken'.name = name
                 /\ \E k \in 1..Len(tokenPool) : lastToken' = tokenPool[k]
                 /\ currentTokenIndex' = currentTokenIndex
                 /\ tokenPool' = tokenPool
            ELSE /\ lastToken' = NextTokenResult(tokenPool, currentTokenIndex)
                 /\ currentTokenIndex' = NextCursor(tokenPool, currentTokenIndex)
                 /\ tokenPool' = tokenPool]_vars

\* a lookup returned "A", the second entry, while the cursor stays on the first
C23_Witness ==
    /\ Len(tokenPool) = 2
    /\ tokenPool[2].name = "A"
    /\ lastToken = tokenPool[2]
    /\ currentTokenIndex = 0
    /\ served = <<>>

\* C24: getNextToken() on an empty pool returns a record named 'default'
\* whose cookies, session token and bearer token are those of the ambient
\* session at the time of the call, and changes neither the cursor nor the
\* pool; the call is always possible, however often it was made before
C24_EmptyPoolDefault ==
    /\ [](tokenPool = <<>> /\ Len(served) < MaxServed => ENABLED GetNextToken)
    /\ [][(TakeNextToken /\ tokenPool = <<>>) =>
            /\ lastToken'.name = "default"
            /\ lastToken'.cookies = bearer.session.cookies
            /\ lastToken'.sessionToken = bearer.session.sessionToken
            /\ lastToken'.accessToken = bearer.session.accessToken
            /\ served' = Append(served, lastToken')
            /\ currentTokenIndex' = currentTokenIndex
            /\ tokenPool' = <<>>]_vars

\* three calls in a row on the empty pool: the first before any credentials
\* were loaded (null cookies, no bearer token), the last after tokens.txt
\* gave the session its cookies and the session endpoint a bearer token
C24_Witness ==
    /\ tokenPool = <<>>
    /\ Len(served) >= 3
    /\ \A k \in 1..Len(served) : served[k].name = "default"
    /\ served[1].cookies = Null
    /\ served[1].sessionToken = Null
    /\ served[1].accessToken = NoAccess
    /\ lastToken = served[Len(served)]
    /\ lastToken.cookies = "c=A"
    /\ lastToken.sessionToken = "st-A"
    /\ lastToken.accessToken # NoAccess
    /\ lastToken.accessToken = bearer.session.accessToken
    /\ currentTokenIndex = 0


\* C25: after a successful load-token-pool(names) the pool holds exactly the
\* store records whose names are in names, in the order of names, unknown
\* names skipped, and the cursor is 0; a call with no names or whose store
\* read fails answers a failure and leaves pool and cursor as they were
StoreNames == {Store[k].name : k \in 1..Len(Store)}
KnownNames(names) == SelectSeq(names, LAMBDA n : n \in StoreNames)
\* a load-token-pool step: its answer differs from the one before, or the
\* history of served records starts afresh
LoadAnswered == loadCall' # loadCall \/ (served # <<>> /\ served' = <<>>)

C25_LoadPool ==
    [][LoadAnswered =>
        IF loadCall'.success
        THEN /\ loadCall'.names # <<>>
             /\ Len(tokenPool') = Len(KnownNames(loadCall'.names))
             /\ \A k \in 1..Len(tokenPool') :
                    /\ tokenPool'[k].name = KnownNames(loadCall'.names)[k]
                    /\ \E s \in 1..Len(Store) : tokenPool'[k] = Token(Store[s])
             /\ currentTokenIndex' = 0
        ELSE /\ tokenPool' = tokenPool
             /\ currentTokenIndex' = currentTokenIndex]_vars

\* a load that skipped the unknown name "X"
C25_Witness ==
    /\ loadCall.success
    /\ loadCall.names = <<"C", "X", "A">>
    /\ Len(tokenPool) = 2
    /\ tokenPool[1].name = "C" /\ tokenPool[2].name = "A"
    /\ currentTokenIndex = 0

\* a load that failed on the store, the pool and the cursor being kept
C25_WitnessFailed ==
    /\ ~loadCall.success
    /\ Len(tokenPool) = 2
    /\ currentTokenIndex = 1


\* C26: an executor call adds 1 to totalRequests when it starts, and each 429
\* it receives adds 1 to retriedRequests and to its account's rateLimited
\* counter, 1 to rateLimitedRequests if it is the call's first, and 1 to
\* failedAfterRetry if it is number maxRetries + 1; so a call with k 429s adds
\* 1, k, k, (k > 0), (k = maxRetries + 1). Nothing but the reset lowers a
\* counter, and the reset zeroes them all and empties the per-account map
Started == {c \in Calls : rq[c].pc = "idle" /\ rq'[c].pc # "idle"}
Hit429 == {c \in Calls : rq'[c].n429 = rq[c].n429 + 1}
RateLimitedOf(stats, a) ==
    IF a \in DOMAIN stats.tokenUsageByAccount
    THEN stats.tokenUsageByAccount[a].rateLimited ELSE 0

Accounted ==
    /\ rateLimitStats'.totalRequests =
          rateLimitStats.totalRequests + Cardinality(Started)
    /\ rateLimitStats'.retriedRequests =
          rateLimitStats.retriedRequests + Cardinality(Hit429)
    /\ rateLimitStats'.rateLimitedRequests =
          rateLimitStats.rateLimitedRequests
              + Cardinality({c \in Hit429 : rq[c].n429 = 0})
    /\ rateLimitStats'.failedAfterRetry =
          rateLimitStats.failedAfterRetry
              + Cardinality({c \in Hit429 : rq'[c].n429 = rq[c].maxRetries + 1})
    /\ \A a \in Accounts :
          RateLimitedOf(rateLimitStats', a) =
              RateLimitedOf(rateLimitStats, a)
                  + Cardinality({c \in Hit429 : rq[c].account = a})
    /\ \A c \in Calls : rq'[c].n429 <= rq'[c].maxRetries + 1

WasReset ==
    /\ rq' = rq
    /\ rateLimitStats'.totalRequests = 0
    /\ rateLimitStats'.rateLimitedRequests = 0
    /\ rateLimitStats'.retriedRequests = 0
    /\ rateLimitStats'.failedAfterRetry = 0
    /\ DOMAIN rateLimitStats'.tokenUsageByAccount = {}

C26_CounterAccounting == [][Accounted \/ WasReset]_vars

\* a call that exhausted maxRetries = 1 on account "A" after a reset, and a
\* second call on "A" throttled once: 2 + 1 on the account, one failure
C26_Witness ==
    /\ rq[1].pc = "rateLimitExceeded" /\ rq[1].maxRetries = 1 /\ rq[1].account = "A"
    /\ rq[2].pc = "returned" /\ rq[2].n429 = 1 /\ rq[2].account = "A"
    /\ rateLimitStats.totalRequests = 1
    /\ rateLimitStats.retriedRequests = 3
    /\ rateLimitStats.rateLimitedRequests = 2
    /\ rateLimitStats.failedAfterRetry = 1
    /\ RateLimitedOf(rateLimitStats, "A") = 3


\* C27: a proxy string with fewer than two colon-separated segments is
\* unparseable and the request is still sent, without a proxy; a string
\* host:port[:user:pass] gives host = first segment, port = integer value of
\* the second, and credentials exactly when the third and the fourth segment
\* are both non-empty
ColonsOf(s) == {i \in 1..Len(s) : s[i] = ":"}
NthColon(s, n) == CHOOSE i \in ColonsOf(s) : Cardinality({j \in ColonsOf(s) : j <= i}) = n

\* the k-th colon-separated segment of s, empty when there is none
SegmentOf(s, k) ==
    IF k > Cardinality(ColonsOf(s)) + 1 THEN <<>>
    ELSE SubSeq(s, IF k = 1 THEN 1 ELSE NthColon(s, k - 1) + 1,
                   IF k = Cardinality(ColonsOf(s)) + 1 THEN Len(s)
                   ELSE NthColon(s, k) - 1)

C27_ProxyHandling ==
    \A c \in Calls : rq[c].pc # "idle" =>
        LET s == rq[c].proxyString
            sent == rq[c].attempts >= 1 /\ rq[c].pc # "idle"
        IN IF ColonsOf(s) = {}
           THEN ~rq[c].proxy.parsed /\ sent
           ELSE /\ rq[c].proxy.parsed /\ sent
                /\ rq[c].proxy.host = SegmentOf(s, 1)
                /\ rq[c].proxy.port = ParseInt(SegmentOf(s, 2))
                /\ rq[c].proxy.hasAuth <=>
                      (SegmentOf(s, 3) # <<>> /\ SegmentOf(s, 4) # <<>>)
                /\ rq[c].proxy.hasAuth =>
                      /\ rq[c].proxy.username = SegmentOf(s, 3)
                      /\ rq[c].proxy.password = SegmentOf(s, 4)

\* "h:8:h:h" went out with credentials and was retried through the same proxy
C27_Witness ==
    /\ rq[1].proxyString = <<"h", ":", "8", ":", "h", ":", "h">>
    /\ rq[1].proxy.hasAuth
    /\ rq[1].proxy.port = Number(8)
    /\ rq[1].pc = "returned"
    /\ rq[1].attempts = 2

\* "hh8" has one segment: sent without a proxy
C27_WitnessUnparseable ==
    /\ rq[1].proxyString = <<"h", "h", "8">>
    /\ ~rq[1].proxy.parsed
    /\ rq[1].pc = "returned"


\* C28: the batch generate-start-end sends has one request per seed (one
\* request with a random seed in 0..65535 when the body names no seeds), every
\* request carries the body's start and end anchor media ids, no two requests
\* of the batch have the same scene id, and none has the body's own sceneId
StartEndBatch(k) ==
    LET b == srv.sent[k].body
        q == srv.sent[k].requests
    IN /\ IF b.hasSeeds
          THEN Len(q) = Len(b.seeds) /\ \A i \in 1..Len(q) : q[i].seed = b.seeds[i]
          ELSE Len(q) = 1 /\ q[1].seed \in 0..65535
       /\ \A i \in 1..Len(q) :
            /\ q[i].startImage = b.startImageMediaId
            /\ q[i].endImage = b.endImageMediaId
            /\ q[i].sceneId # b.sceneId
       /\ \A i, j \in 1..Len(q) : i # j => q[i].sceneId # q[j].sceneId

C28_StartEndBatch ==
    \A k \in 1..Len(srv.sent) :
        srv.sent[k].endpoint = "generate-start-end" => StartEndBatch(k)

\* a batch of three seeds (two equal) and a batch with the random seed 65535
C28_Witness ==
    \E j, k \in 1..Len(srv.sent) :
        /\ srv.sent[j].endpoint = "generate-start-end"
        /\ Len(srv.sent[j].requests) = 3
        /\ srv.sent[j].requests[1].seed = srv.sent[j].requests[2].seed
        /\ srv.sent[k].endpoint = "generate-start-end"
        /\ ~srv.sent[k].body.hasSeeds
        /\ srv.sent[k].requests[1].seed = 65535


\* C29: the batch of a job has one request per seed (2 seeds), each with the
\* job's prompt, its seed and the scene metadata; a request has a videoInput
\* if and only if its job is CONTINUE, and then its mediaId is the chain's
\* current last clip id and its frame window is 168..191
CurrentPrompt == chain.prompts[chain.promptIndex + 1]

C29_RequestConstruction ==
    chain.pc = "submitting" =>
        LET q == chain.request.requests IN
        /\ Len(q) = 2
        /\ \A k \in 1..Len(q) :
            /\ q[k].prompt = CurrentPrompt
            /\ q[k].seed = RandomSeed(k)
            /\ q[k].sceneId = chain.sceneId
            /\ q[k].hasVideoInput <=> ~IsNewPrompt(CurrentPrompt)
            /\ q[k].hasVideoInput =>
                  /\ q[k].videoInput.mediaId = chain.lastClipId
                  /\ q[k].videoInput.startFrameIndex = 168
                  /\ q[k].videoInput.endFrameIndex = 191

\* the second job, a CONTINUE one, extends the winner committed by the first
C29_Witness ==
    /\ chain.pc = "submitting"
    /\ chain.promptIndex = 1
    /\ chain.successCount = 1
    /\ ~IsNewPrompt(CurrentPrompt)
    /\ chain.request.requests[1].videoInput.mediaId = chain.selectedMediaId
    /\ chain.lastClipId = chain.selectedMediaId
    /\ chain.request.requests[2].hasVideoInput


\* C30: EXTEND submission. startJob called with previousMediaGenerationId takes
\* the extend path whatever other arguments are given, posting one request that
\* carries only the previous media id, the prompt and the additional duration
\* (the first two conjuncts); that request is accepted by the extend endpoint
\* and forwarded to the provider (the last conjunct).
FromStartJob(r) ==
    /\ srv.reqs[r].endpoint = "extend-video"
    /\ srv.reqs[r].body.previousMediaGenerationId # ""
C30_ExtendSubmission ==
    \A r \in Reqs :
        FromStartJob(r) =>
            /\ \E args \in ExtendArgs : srv.reqs[r].body = ExtendPayload(args)
            /\ srv.reqs[r].body.additionalDurationSec \in {DefaultDurationSec, 5}
            /\ srv.reqs[r].result # "missingBatch"

\* the part of C30 the client code does satisfy: the extend path is taken and
\* the request carries the three fields, the duration defaulting to 8
C30_ExtendPath ==
    \A r \in Reqs :
        FromStartJob(r) =>
            /\ \E args \in ExtendArgs :
                  /\ args.previousMediaGenerationId # ""
                  /\ srv.reqs[r].body = ExtendPayload(args)
            /\ srv.reqs[r].body.additionalDurationSec \in {DefaultDurationSec, 5}
            /\ srv.reqs[r].pc = "done" /\ srv.reqs[r].result = "missingBatch"
            /\ \A k \in 1..Len(srv.sent) :
                  srv.sent[k].body.previousMediaGenerationId = ""


\* C31: model fallback. generateVideo tries the model keys strictly in list
\* order, one at a time: the keys posted so far are a prefix of the list and
\* all but the latest have failed. It returns the result of the first model
\* that succeeds and tries no later one; if every model fails it returns
\* success: false whose error is the last failure's message. It never makes
\* more than len(modelKeys) attempts.
C31_ModelFallback ==
    LET made == Len(gv.attempts) IN
    /\ made <= Len(gv.modelKeys)
    /\ \A k \in 1..made : gv.attempts[k] = gv.modelKeys[k]
    /\ gv.pc = "awaiting" => Len(gv.failures) = made - 1
    /\ gv.pc = "done" /\ gv.result.success =>
          /\ Len(gv.failures) = made - 1
          /\ gv.result.model = gv.modelKeys[made]
    /\ gv.pc = "done" /\ ~gv.result.success =>
          /\ made = Len(gv.modelKeys)
          /\ Len(gv.failures) = made
          /\ made >= 1 => gv.result.error = gv.failures[made]

C31_Witness ==
    /\ gv.pc = "done" /\ gv.result.success
    /\ Len(gv.modelKeys) = 3 /\ Len(gv.attempts) = 2
    /\ gv.result.model = "ultra_fl" /\ gv.modelKeys[1] = "ultra_relaxed"

C31_WitnessAllFailed ==
    /\ gv.pc = "done" /\ ~gv.result.success
    /\ Len(gv.attempts) = 2
    /\ gv.failures = <<"quota", "unsafe">> /\ gv.result.error = "unsafe"


\* C32 as stated: a finished getAccessToken call returned the cached token
\* without calling the session endpoint if and only if it was not forced, a
\* token was cached, its age was below 55 minutes and validateToken answered
\* true; in every other case it called the session endpoint, and a token
\* answer is stored in the same record with the time of the answer as
\* lastUpdate and returned. If the fetch was answered 401 the record's token
\* is cleared and the error propagates.
Call == bearer.frames[0]
HadCredentials == ~Falsy(Call.before.cookies) /\ ~Falsy(Call.before.sessionToken)
\* the record of the call: the global session itself, or the token object
RecordOf(b) == IF b.record = "session" THEN Credential(bearer.session) ELSE b.after
\* the call found a cached token it could return
Usable(b) ==
    /\ ~b.forceRefresh
    /\ b.before.accessToken # NoAccess
    /\ b.age < MaxAgeMs
    /\ b.validations = <<TRUE>>
\* what the call did with the answer of the session endpoint
Fetched(b, rec) ==
    /\ b.fetches[1] = "access_token" =>
          /\ b.returned = rec.accessToken /\ ~b.thrown
          /\ rec.accessToken \notin {NoAccess, b.before.accessToken}
          /\ rec.lastUpdate = b.fetchedAt
    /\ b.fetches[1] = "401" =>
          /\ b.thrown /\ rec.accessToken = NoAccess
    /\ b.fetches[1] # "access_token" => b.thrown /\ b.returned = NoAccess

C32_TokenRefreshAlways ==
    LET b == Call
        rec == RecordOf(b)
    IN b.pc = "done" =>
        /\ b.fetches = <<>> <=> Usable(b)
        /\ Usable(b) => /\ b.returned = b.before.accessToken /\ ~b.thrown
                        /\ rec = b.before
        /\ ~Usable(b) => Len(b.fetches) = 1 /\ Fetched(b, rec)

\* C32 amended: the cached token is returned without calling the session
\* endpoint if and only if the call was not forced, a token was cached, its
\* age was below 55 minutes and validateToken answered true. In every other
\* case: a record with cookies and session token has a new token fetched,
\* once, and a token answer is stored in the same record with the time of the
\* answer as lastUpdate and returned; a lane record without cookies or session
\* token makes the call throw without extraction or fetch, the record left as
\* it was; for the global session without them extractCredentials runs first,
\* and the call fetches only if the extraction succeeded and the cookies the
\* call copied when it began are not null, and throws without fetching
\* otherwise. A fetch answered 401 clears the record's token and the error
\* propagates.
C32_TokenRefresh ==
    LET b == Call
        rec == RecordOf(b)
        lane == b.record # "session"
    IN b.pc = "done" =>
        /\ Usable(b) <=> (b.fetches = <<>> /\ ~b.thrown)
        /\ Usable(b) => /\ b.returned = b.before.accessToken
                        /\ b.extracts = <<>>
                        /\ rec = b.before
        /\ ~Usable(b) =>
              /\ HadCredentials =>
                    /\ Len(b.fetches) = 1 /\ b.extracts = <<>>
                    /\ rec.cookies = b.before.cookies
              /\ ~HadCredentials /\ lane =>
                    /\ b.fetches = <<>> /\ b.extracts = <<>>
                    /\ b.status = 0
                    /\ rec = b.before
              /\ ~HadCredentials /\ ~lane =>
                    /\ Len(b.extracts) = 1
                    /\ Len(b.fetches) = 1 <=>
                          /\ b.extracts[1] # "throws"
                          /\ b.before.cookies \notin {Null, Undefined}
              /\ b.fetches = <<>> => b.thrown /\ b.returned = NoAccess
              /\ b.fetches # <<>> => Len(b.fetches) = 1 /\ Fetched(b, rec)

\* the session of a tokens.txt entry without session token: the credentials
\* are extracted from Chrome through the debugging port, then the token is
\* fetched with the cookies of the entry and stored in the session
C32_Witness ==
    /\ Call.pc = "done" /\ Call.record = "session"
    /\ Call.before.cookies = "c=D" /\ Call.before.sessionToken = Undefined
    /\ Call.before.accessToken = NoAccess
    /\ Call.extracts = <<"both">> /\ Call.fetches = <<"access_token">>
    /\ ~Call.thrown /\ Call.returned = bearer.session.accessToken
    /\ bearer.session.accessToken # NoAccess
    /\ bearer.session.lastUpdate = Call.fetchedAt

\* a token aged exactly 55 minutes is fetched again although it is cached
C32_WitnessStale ==
    /\ Call.pc = "done" /\ HadCredentials
    /\ ~Call.forceRefresh /\ Call.before.accessToken # NoAccess
    /\ Call.age = MaxAgeMs
    /\ Call.validations = <<>> /\ Call.fetches = <<"access_token">>

C32_WitnessCached ==
    /\ Call.pc = "done" /\ Call.age = MaxAgeMs - 1
    /\ Call.fetches = <<>> /\ Call.returned = AccessToken(1)

C32_WitnessCleared ==
    /\ Call.pc = "done" /\ Call.fetches = <<"401">>
    /\ Call.record = "session"
    /\ Call.before.accessToken # NoAccess
    /\ bearer.session.accessToken = NoAccess

\* lane B, whose record has no cookies: the call throws, nothing is fetched
C32_WitnessNoCredentials ==
    /\ Call.pc = "done" /\ Call.record = "B"
    /\ Falsy(Call.before.cookies)
    /\ Call.thrown /\ Call.fetches = <<>> /\ Call.extracts = <<>>
    /\ Call.after = Call.before

\* the session of a new Chrome profile without cookies: the extraction
\* succeeds, the copy the call made still has null cookies and the call throws
\* a TypeError without fetching
C32_WitnessNullCookies ==
    /\ Call.pc = "done" /\ Call.record = "session"
    /\ Call.before.cookies = Null
    /\ Call.extracts = <<"both">> /\ Call.fetches = <<>> /\ Call.thrown
    /\ bearer.session.cookies = "c=page; st=page"

\* a cached token is returned although the session has no cookies
C32_WitnessCachedWithout ==
    /\ Call.pc = "done" /\ Call.record = "session" /\ ~HadCredentials
    /\ Call.validations = <<TRUE>> /\ Call.fetches = <<>> /\ ~Call.thrown
    /\ Call.returned = Call.before.accessToken


\* C33: Retry-After precedence. When a 429 response carries a Retry-After
\* header of s seconds, s a positive integer, and a retry is left, the wait
\* before the next attempt is exactly s * 1000 ms, whatever the exponential
\* value would have been; in axiosWithRetry and in postJson alike.
RECURSIVE DecimalValue(_)
DecimalValue(h) ==
    IF h = <<>> THEN 0
    ELSE 10 * DecimalValue(SubSeq(h, 1, Len(h) - 1)) + DigitVal(h[Len(h)])
PositiveSeconds(h) ==
    /\ h # <<>>
    /\ \A i \in 1..Len(h) : IsDigit(h[i])
    /\ DecimalValue(h) > 0

C33_RetryAfterPrecedence ==
    /\ \A c \in Calls :
        (rq[c].pc = "waiting" /\ PositiveSeconds(rq[c].retryAfter)) =>
            rq[c].waitMs = Number(DecimalValue(rq[c].retryAfter) * 1000)
    /\ (pj.pc = "backoff" /\ PositiveSeconds(pj.retryAfter)) =>
            pj.waitMs = Number(DecimalValue(pj.retryAfter) * 1000)

\* a second 429 with Retry-After: 40 waits 40000 ms where the exponential
\* value is 2000 ms
C33_Witness ==
    /\ rq[1].pc = "waiting" /\ rq[1].retryCount = 1
    /\ rq[1].retryAfter = <<"4", "0">> /\ rq[1].waitMs = Number(40000)
    /\ pj.pc = "backoff" /\ pj.retryAfter = <<"4", "0">> /\ pj.waitMs = Number(40000)

\* C34: retry wait cap. For every call and every retry, whatever headers the
\* 429 response carries, the wait before the next attempt is at most 32000 ms.
C34_WaitCap ==
    /\ \A c \in Calls : rq[c].pc = "waiting" => AtMost(rq[c].waitMs, Number(BackoffCapMs))
    /\ pj.pc = "backoff" => AtMost(pj.waitMs, Number(BackoffCapMs))


\* C35: pollOperation terminates within its budget. A call makes at most
\* maxTries status checks, HIGH_TRAFFIC ticks included; after a HIGH_TRAFFIC
\* tick it sleeps exactly 2 * intervalMs and after any other non-terminal tick
\* exactly intervalMs, however many HIGH_TRAFFIC ticks came before; it ends
\* with the timeout error exactly when maxTries checks were made and none was
\* terminal; and every call that is polling eventually returns or throws.
C35_Budget ==
    /\ poll.checks <= poll.maxTries
    /\ poll.pc = "checking" => poll.checks = poll.i + 1
    /\ (poll.pc = "sleeping" /\ Len(poll.answers) = poll.checks) =>
          poll.sleepMs = IF poll.answers[poll.checks] = StatusJson(OpHighTraffic)
                         THEN 2 * poll.intervalMs ELSE poll.intervalMs
    /\ (poll.pc = "thrown" /\ poll.error = "Timeout polling status") =>
          /\ poll.checks = poll.maxTries
          /\ \A k \in 1..Len(poll.answers) :
                poll.answers[k] \in {StatusJson(OpPending), StatusJson(OpActive),
                                     StatusJson(OpHighTraffic)}
    /\ (poll.pc = "sleeping" /\ poll.checks = poll.maxTries) =>
          (ENABLED PollWake /\ ~ENABLED PostJsonRespondStatus)

C35_PollTerminates ==
    /\ []C35_Budget
    /\ (poll.pc \in {"checking", "sleeping"}) ~> (poll.pc \in {"returned", "thrown"})

\* three HIGH_TRAFFIC ticks in a row: the third sleep is still 2 * intervalMs
\* and the budget of three checks ends in the timeout
C35_Witness ==
    /\ poll.pc = "thrown" /\ poll.error = "Timeout polling status"
    /\ poll.maxTries = 3 /\ poll.checks = 3
    /\ poll.answers = <<StatusJson(OpHighTraffic), StatusJson(OpHighTraffic),
                        StatusJson(OpHighTraffic)>>


\* C36: anchor consistency. In every state of a chain, after any sequence of
\* successful steps, timeouts, update failures and scene reloads, lastClipId
\* is the clipId of the last element of the local clip list (and null or
\* undefined while the list is empty); and whenever a CONTINUE request is
\* built, its videoInput.mediaId is that id and is neither null nor undefined.
AnchorIsLastClip(ch) ==
    IF Len(ch.initialClips) = 0 THEN ch.lastClipId \in {Null, Undefined}
    ELSE ch.lastClipId = ch.initialClips[Len(ch.initialClips)].clipId

ContinueBuilt ==
    /\ chain'.pc = "submitting" /\ chain'.request.type = "continue"
    /\ ~(chain.pc = "submitting" /\ chain'.promptIndex = chain.promptIndex)

C36_AnchorConsistency ==
    /\ []AnchorIsLastClip(chain)
    /\ [][ContinueBuilt =>
            /\ Len(chain'.initialClips) > 0
            /\ \A k \in 1..2 :
                  /\ chain'.request.requests[k].hasVideoInput
                  /\ chain'.request.requests[k].videoInput.mediaId =
                        chain'.initialClips[Len(chain'.initialClips)].clipId
                  /\ chain'.request.requests[k].videoInput.mediaId
                        \notin {Null, Undefined}
       ]_vars

\* a CONTINUE job sent after the page reported a two-clip scene during the
\* first job and that job's update failed: its anchor is the reported clip c2
C36_Witness ==
    /\ chain.pc = "submitting" /\ chain.promptIndex = 1
    /\ chain.request.type = "continue"
    /\ Len(chain.errorPrompts) = 1
    /\ Len(chain.initialClips) = 2
    /\ chain.request.requests[1].videoInput.mediaId = "c2"


\* C37: the fingerprint of a generate-start-end request is recorded before
\* the submission is attempted and stays recorded when the submission fails
\* (lane not found, token refresh error, provider error): while the request
\* is at most 3000 ms old its fingerprint is in the map with its arrival
\* time, whatever became of it; and an identical request arriving within
\* 3000 ms of a failed one is rejected as duplicate and sends nothing.
SubmissionFailures ==
    {"laneNotFound", "readError", "typeError", "authError", "providerError", "badAnswer"}

PassedDedup(h) ==
    /\ h.endpoint \in DedupEndpoints
    /\ h.pc # "idle" /\ h.result # "duplicate"

FailedRecently(q, hash) ==
    /\ PassedDedup(srv.reqs[q]) /\ srv.reqs[q].pc = "done"
    /\ srv.reqs[q].result \in SubmissionFailures
    /\ srv.reqs[q].hash = hash
    /\ now - srv.reqs[q].at <= REQUEST_DEDUP_WINDOW_MS

C37_FailedSubmissionBlocks ==
    /\ [](\A r \in Reqs :
            (PassedDedup(srv.reqs[r])
             /\ now - srv.reqs[r].at <= REQUEST_DEDUP_WINDOW_MS) =>
                recentRequests[srv.reqs[r].hash] = srv.reqs[r].at)
    /\ [][(/\ srv'.arrivals = srv.arrivals + 1
            /\ \E q \in Reqs : FailedRecently(q, srv'.arrived[srv'.arrivals].hash)) =>
                /\ srv'.arrived[srv'.arrivals].verdict = "duplicate"
                /\ srv'.sent = srv.sent
                /\ srv'.authCalls = srv.authCalls /\ srv'.storeReads = srv.storeReads
                /\ recentRequests'[srv'.arrived[srv'.arrivals].hash] =
                      recentRequests[srv'.arrived[srv'.arrivals].hash]
       ]_vars

\* lane X was not found; the same request sent again exactly 3000 ms after the
\* first was rejected as duplicate, and nothing was ever sent to the provider
C37_Witness ==
    /\ Len(srv.arrived) = 2
    /\ srv.arrived[1].hash = "h1" /\ srv.arrived[2].hash = "h1"
    /\ srv.arrived[2].at = srv.arrived[1].at + REQUEST_DEDUP_WINDOW_MS
    /\ srv.arrived[2].verdict = "duplicate"
    /\ srv.reqs[1].result = "duplicate" /\ srv.reqs[1].at = srv.arrived[2].at
    /\ srv.sent = <<>>


\* C38: counter consistency under interleaving. In every reachable state, for
\* any interleaving of concurrent axiosWithRetry calls and
\* reset-rate-limit-stats calls, failedAfterRetry <= rateLimitedRequests <=
\* totalRequests and rateLimitedRequests <= retriedRequests.
C38_CounterConsistency ==
    /\ rateLimitStats.failedAfterRetry <= rateLimitStats.rateLimitedRequests
    /\ rateLimitStats.rateLimitedRequests <= rateLimitStats.totalRequests
    /\ rateLimitStats.rateLimitedRequests <= rateLimitStats.retriedRequests


\* C39: cursor bound. In every reachable state, after any interleaving of
\* load-token-pool, getNextToken and getTokenByName calls, including loads
\* that shrink or empty the pool, 0 <= cursor < max(1, pool length); so
\* every record getNextToken has returned from a non-empty pool since the
\* last load is an entry of the pool.
C39_CursorBound ==
    /\ 0 <= currentTokenIndex
    /\ currentTokenIndex < (IF Len(tokenPool) > 1 THEN Len(tokenPool) ELSE 1)
    /\ Len(tokenPool) > 0 =>
          /\ currentTokenIndex + 1 \in DOMAIN tokenPool
          /\ \A k \in 1..Len(served) :
                \E i \in DOMAIN tokenPool : served[k] = tokenPool[i]

\* a load naming two lanes, one of them unknown, left a one-entry pool with
\* the cursor at 0: two calls later the cursor has wrapped to 0 twice and both
\* calls returned the only entry
C39_Witness ==
    /\ loadCall.success /\ Len(loadCall.names) = 2
    /\ Len(tokenPool) = 1
    /\ currentTokenIndex = 0
    /\ Len(served) = 2 /\ served[1] = tokenPool[1] /\ served[2] = tokenPool[1]

====
